---------------------------- MODULE Spec2Model ----------------------------
(***************************************************************************)
(* kvkit: an ordered key/value store (kyotocabinet backend), the range     *)
(* slice protocol, the Model / Index layer, the Hexastore and the          *)
(* transaction wrapper.                                                    *)
(*                                                                         *)
(* Byte strings are sequences of byte values (0..255); the store orders    *)
(* its keys by unsigned byte comparison.  Python's None is NoneKey where a *)
(* key is expected.                                                        *)
(***************************************************************************)
EXTENDS Integers, Sequences, FiniteSets, TLC

VARIABLES
    db,         \* the store: a function from the keys present to their values
    sliceReq,   \* the last slice asked of the store: <<start, stop, step>>
    sliceOut,   \* the entries <<key, value>> that slice yielded, in order
    sliceErr,   \* whether that slice raised ValueError
    txnActive,  \* a backend transaction is open
    txnSaved,   \* the backend's image of the store at begin()
    txnForm,    \* how the open scope was entered: "with" or "decorator"
    txnPre,     \* history: the store when the last scope was entered
    txnLog,     \* history: what the last scope wrote, key -> value (Deleted)
    txnEnd,     \* how the last scope was left: "none", "open", "normal", "exception"
    txnCalls,   \* history: the backend calls the last scope made, in order
    exceptional, \* the Database was built with exceptional=True
    raised,     \* the last operation ended with an exception at its caller
    serialize,  \* the model class's Meta.serialize option
    declared,   \* the model class's fields in declaration order, the id field last
    inst,       \* the model instance in hand: its _data dict
    created,    \* history: the ids next_id handed to new records, in order
    queryReq,   \* the last expression given to Model.query
    queryOut,   \* the instances (_data dicts) that query returned, in order
    triples,    \* history: the triples stored in the hexastore and not deleted
    hexReq,     \* the last Hexastore.query / search request
    hexOut,     \* what that request yielded
    ctrBackend, \* the backend whose incr / decr is called
    ctrPending, \* per caller: <<>> or <<amount, value>>, the value an incr is about to write
    ctrAmounts, \* history: the signed amounts of the calls that returned, in order
    ctrRets,    \* history: the values those calls returned, in order
    cur,        \* the cursor in hand
    curOps,     \* history: the cursor's positioning and what was asked of it since
    curOuts     \* history: the entries each fetch since the positioning yielded

sliceVars == <<sliceReq, sliceOut, sliceErr>>
txnVars == <<txnActive, txnSaved, txnForm, txnPre, txnLog, txnEnd, txnCalls, exceptional>>
modelVars == <<serialize, declared, inst, created, queryReq, queryOut>>
hexaVars == <<triples, hexReq, hexOut>>
counterVars == <<ctrBackend, ctrPending, ctrAmounts, ctrRets>>
cursorVars == <<cur, curOps, curOuts>>
vars == <<db, sliceReq, sliceOut, sliceErr,
          txnActive, txnSaved, txnForm, txnPre, txnLog, txnEnd, txnCalls, exceptional,
          raised,
          serialize, declared, inst, created, queryReq, queryOut,
          triples, hexReq, hexOut,
          ctrBackend, ctrPending, ctrAmounts, ctrRets, cur, curOps, curOuts>>

---------------------------------------------------------------------------
(* Byte strings and Python 2 comparisons *)

NoneKey == <<-1>>

MinOf(S) == CHOOSE x \in S : \A y \in S : x <= y

\* str.__lt__ : lexicographic by unsigned byte, a proper prefix is smaller
LexLess(a, b) ==
    LET n == IF Len(a) < Len(b) THEN Len(a) ELSE Len(b)
        d == {i \in 1..n : a[i] # b[i]}
    IN  IF d = {} THEN Len(a) < Len(b)
        ELSE LET i == MinOf(d) IN a[i] < b[i]

\* Python 2 orders None below every string
PyLess(a, b) ==
    IF a = NoneKey THEN b # NoneKey
    ELSE IF b = NoneKey THEN FALSE
    ELSE LexLess(a, b)

PyLessEq(a, b) == a = b \/ PyLess(a, b)

\* truth value of a key argument: None and '' are false
Truthy(a) == a # NoneKey /\ a # <<>>

StartsWith(s, p) == Len(p) <= Len(s) /\ SubSeq(s, 1, Len(p)) = p

---------------------------------------------------------------------------
(* The kyotocabinet store and its cursor *)

SetItem(d, key, value) ==
    [k \in (DOMAIN d) \cup {key} |-> IF k = key THEN value ELSE d[k]]

\* db.remove(key): a missing key is not an error
DelItem(d, key) == [k \in (DOMAIN d) \ {key} |-> d[k]]

Contains(d, key) == key \in DOMAIN d

KeysFrom(d, k) == {x \in DOMAIN d : ~LexLess(x, k)}
KeysAbove(d, k) == {x \in DOMAIN d : LexLess(k, x)}
KeysBelow(d, k) == {x \in DOMAIN d : LexLess(x, k)}

LeastKey(S) == IF S = {} THEN NoneKey
               ELSE CHOOSE x \in S : \A y \in S : x = y \/ LexLess(x, y)
GreatestKey(S) == IF S = {} THEN NoneKey
                  ELSE CHOOSE x \in S : \A y \in S : x = y \/ LexLess(y, x)

\* a cursor: the key it stands on (NoneKey: no record), direction, _consumed
Cursor(pos, reverse) == [pos |-> pos, reverse |-> reverse, consumed |-> FALSE]

first(d, c) == [c EXCEPT !.consumed = FALSE, !.pos = LeastKey(DOMAIN d)]
last(d, c) == [c EXCEPT !.consumed = FALSE, !.pos = GreatestKey(DOMAIN d)]
\* jump(key): the first record whose key is >= key
seek(d, c, key) == [c EXCEPT !.consumed = FALSE, !.pos = LeastKey(KeysFrom(d, key))]
seekOk(d, key) == KeysFrom(d, key) # {}

_next(d, c) ==
    [c EXCEPT !.pos = IF c.pos = NoneKey THEN NoneKey ELSE LeastKey(KeysAbove(d, c.pos))]
_previous(d, c) ==
    [c EXCEPT !.pos = IF c.pos = NoneKey THEN NoneKey ELSE GreatestKey(KeysBelow(d, c.pos))]

\* Database.cursor() used as a context manager
cursor(d, reverse) ==
    IF reverse THEN last(d, Cursor(NoneKey, TRUE)) ELSE first(d, Cursor(NoneKey, FALSE))

\* Cursor.get on the record with key k: the entry (key, value)
get(d, k) == <<k, d[k]>>

\* Cursor.next: <<key of the item, cursor>>, item NoneKey for StopIteration
next(d, c) ==
    IF c.consumed THEN <<NoneKey, c>>
    ELSE IF c.pos = NoneKey THEN <<NoneKey, [c EXCEPT !.consumed = TRUE]>>
    ELSE LET stepped(c2) == <<c.pos, [c2 EXCEPT !.consumed = (c2.pos = NoneKey)]>>
         IN  stepped(IF c.reverse THEN _previous(d, c) ELSE _next(d, c))

\* operator.le on a reverse cursor, operator.ge on a forward one
compare(c, key, end_key) ==
    IF c.reverse THEN PyLessEq(key, end_key) ELSE PyLessEq(end_key, key)

\* the loop of fetch_until: <<entries yielded, cursor when the loop ends>>
RECURSIVE fetch_loop(_, _, _)
fetch_loop(d, c, end_key) ==
    LET more(e, t) == <<<<e>> \o t[1], t[2]>>
        body(r) ==
            IF r[1] = NoneKey THEN <<<<>>, r[2]>>
            ELSE IF compare(c, r[1], end_key)
                 THEN <<(IF r[1] = end_key THEN <<get(d, r[1])>> ELSE <<>>), r[2]>>
                 ELSE more(get(d, r[1]), fetch_loop(d, r[2], end_key))
    IN  body(next(d, c))

\* Cursor.fetch_until, run to its end: <<entries yielded, cursor afterwards>>;
\* `for key, value in self` calls __iter__ first
fetch_until(d, c, end_key) == fetch_loop(d, [c EXCEPT !.consumed = FALSE], end_key)

\* mutant: n entries are skipped, none yielded
RECURSIVE fetch_count_yield_none(_, _, _)
fetch_count_yield_none(d, c, n) ==
    LET body(r) ==
            IF r[1] = NoneKey THEN <<<<>>, r[2]>>
            ELSE fetch_count_yield_none(d, r[2], n - 1)
    IN  IF n > 0 THEN body(next(d, c)) ELSE <<<<>>, c>>

\* Cursor.fetch_count, run to its end: <<entries yielded, cursor afterwards>>;
\* StopIteration out of next(self) ends the generator
RECURSIVE fetch_count(_, _, _)
fetch_count(d, c, n) ==
    LET more(e, t) == <<<<e>> \o t[1], t[2]>>
        body(r) ==
            IF r[1] = NoneKey THEN <<<<>>, r[2]>>
            ELSE more(get(d, r[1]), fetch_count(d, r[2], n - 1))
    IN  IF n > 0 THEN body(next(d, c)) ELSE <<<<>>, c>>

\* the loop of `for item in cursor`
RECURSIVE iter_loop(_, _)
iter_loop(d, c) ==
    LET more(e, t) == <<<<e>> \o t[1], t[2]>>
        body(r) ==
            IF r[1] = NoneKey THEN <<<<>>, r[2]>>
            ELSE more(get(d, r[1]), iter_loop(d, r[2]))
    IN  body(next(d, c))

\* list(cursor): Cursor.__iter__, then next until StopIteration
iterate(d, c) == iter_loop(d, [c EXCEPT !.consumed = FALSE])

\* the entries a generator yielded
Yielded(r) == r[1]

---------------------------------------------------------------------------
(* Range slices *)

Result(err, out) == [err |-> err, out |-> out]

clean_key_slice(start, stop, step) ==
    LET isFirst == start = NoneKey
        isLast == stop = NoneKey
        one_empty == (isFirst /\ ~isLast) \/ (isLast /\ ~isFirst)
        none_empty == ~isFirst /\ ~isLast
        swap1 == step /\ one_empty
        s1 == IF swap1 THEN stop ELSE start
        e1 == IF swap1 THEN start ELSE stop
        swap2 == step /\ none_empty /\ PyLess(s1, e1)
        s2 == IF swap2 THEN e1 ELSE s1
        e2 == IF swap2 THEN s1 ELSE e1
        rev == IF none_empty /\ PyLess(e2, s2) THEN TRUE ELSE step
    IN  <<s2, e2, rev>>

get_slice(d, start, end) ==
    IF Truthy(start) /\ PyLess(end, start) THEN Result(TRUE, <<>>)
    ELSE LET positioned(c0) == IF start = NoneKey THEN first(d, c0) ELSE seek(d, c0, start)
         IN  Result(FALSE, Yielded(fetch_until(d, positioned(cursor(d, FALSE)), end)))

\* mutant: the reverse scan without the step back from the next-higher key
get_slice_rev_no_step_back(d, start, end) ==
    IF Truthy(start) /\ PyLess(start, end) THEN Result(TRUE, <<>>)
    ELSE LET positioned(c0) ==
                 IF start = NoneKey THEN last(d, c0)
                 ELSE IF seekOk(d, start) THEN seek(d, c0, start)
                 ELSE last(d, seek(d, c0, start))
         IN  Result(FALSE, Yielded(fetch_until(d, positioned(cursor(d, TRUE)), end)))

get_slice_rev(d, start, end) ==
    IF Truthy(start) /\ PyLess(start, end) THEN Result(TRUE, <<>>)
    ELSE LET positioned(c0) ==
                 IF start = NoneKey THEN last(d, c0)
                 ELSE IF seekOk(d, start) THEN seek(d, c0, start)
                 ELSE last(d, seek(d, c0, start))
             stepped_back(c1) ==
                 IF c1.pos # NoneKey /\ Truthy(start) /\ PyLess(start, c1.pos)
                 THEN _previous(d, c1) ELSE c1
         IN  Result(FALSE, Yielded(fetch_until(d, stepped_back(positioned(cursor(d, TRUE))), end)))

\* Database.__getitem__ with a slice
getitem_slice(d, start, stop, step) ==
    LET run(k) == IF k[3] THEN get_slice_rev(d, k[1], k[2]) ELSE get_slice(d, k[1], k[2])
    IN  run(clean_key_slice(start, stop, step))

---------------------------------------------------------------------------
(* Transactions *)

\* Database.begin / commit / rollback: <<store, txnActive, txnSaved>>
begin(d) == <<d, TRUE, d>>
commit(d, saved) == <<d, FALSE, saved>>
rollback(d, saved) == <<saved, FALSE, saved>>

\* Database.commit when end_transaction(True) does not succeed: it raises when
\* the store was built with exceptional=True and returns False otherwise;
\* `after` is what the store then holds: <<store, txnActive, txnSaved, raised>>
commit_fails(d, saved, exc_mode, after) == <<after, FALSE, saved, exc_mode>>

\* transaction.__exit__ at normal exit when the commit does not succeed:
\* <<store, txnActive, txnSaved, backend calls made, raised to the caller>>
transaction_exit_commit_fails(d, saved, exc_mode, after) ==
    LET left(c) ==
            IF c[4] THEN <<rollback(c[1], saved)[1], FALSE, saved, <<"commit", "rollback">>, TRUE>>
            ELSE <<c[1], c[2], c[3], <<"commit">>, FALSE>>
    IN  left(commit_fails(d, saved, exc_mode, after))

\* mutant: the scope commits whether or not it raised
transaction_exit_commit_always(d, saved, exc) == commit(d, saved)

\* transaction.__exit__(exc_type, ...): roll back when the scope raised, else
\* commit; it returns None, so the scope's exception goes on to the caller
transaction_exit(d, saved, exc) == IF exc THEN rollback(d, saved) ELSE commit(d, saved)

---------------------------------------------------------------------------
(* Python values of the model layer, struct and str *)

PyNone == <<"none">>
PyStr(b) == <<"str", b>>
PyInt(n) == <<"int", n>>
\* a float, as the high and the low 32 bits of its IEEE 754 double
PyFloat(hi, lo) == <<"float", hi, lo>>
\* datetime.date(y, m, d)
PyDate(y, m, d) == <<"date", y, m, d>>
\* datetime.datetime(y, m, d, H, M, S, us)
PyDateTime(y, m, d, H, M, S, us) == <<"datetime", y, m, d, H, M, S, us>>

\* bool(v): None, '' and 0 are false
PyTruth(v) ==
    CASE v[1] = "none" -> FALSE
      [] v[1] = "str" -> v[2] # <<>>
      [] v[1] = "int" -> v[2] # 0
      [] v[1] = "float" -> v[2] # 0 \/ v[3] # 0
      [] v[1] \in {"date", "datetime"} -> TRUE

\* struct.pack('>q', n): 8 bytes, big-endian two's complement (|n| < 2^31 here)
Pack(n) ==
    [i \in 1..8 |-> IF i <= 4 THEN (IF n < 0 THEN 255 ELSE 0)
                    ELSE (n \div (256 ^ (8 - i))) % 256]

\* struct.unpack('>q', b)[0]
Unpack(b) ==
    (IF b[1] >= 128 THEN b[5] - 256 ELSE b[5]) * (256 ^ 3)
        + b[6] * (256 ^ 2) + b[7] * 256 + b[8]

\* str(n) of an int: its decimal digits
RECURSIVE Str(_)
Str(n) ==
    IF n < 0 THEN <<45>> \o Str(0 - n)
    ELSE IF n < 10 THEN <<48 + n>>
    ELSE Str(n \div 10) \o <<48 + (n % 10)>>

\* '%s' % v
PyText(v) ==
    CASE v[1] = "none" -> <<78, 111, 110, 101>>
      [] v[1] = "str" -> v[2]
      [] v[1] = "int" -> Str(v[2])

\* 4 bytes, big-endian, of a word below 2^31
Bytes4(w) == [i \in 1..4 |-> (w \div (256 ^ (4 - i))) % 256]
Word(b) == b[1] * (256 ^ 3) + b[2] * (256 ^ 2) + b[3] * 256 + b[4]

\* struct.pack('>d', x) and struct.unpack('>d', b)[0]
PackDouble(x) == Bytes4(x[2]) \o Bytes4(x[3])
UnpackDouble(b) == PyFloat(Word(SubSeq(b, 1, 4)), Word(SubSeq(b, 5, 8)))

\* '%0<width>d' % n, for n of at most width digits
Zfill(n, width) == [i \in 1..width |-> 48 + ((n \div (10 ^ (width - i))) % 10)]

\* int(b) of decimal digits
RECURSIVE ParseInt(_)
ParseInt(b) ==
    IF Len(b) = 0 THEN 0
    ELSE ParseInt(SubSeq(b, 1, Len(b) - 1)) * 10 + (b[Len(b)] - 48)

\* the pieces of b between separator bytes (b.split(sep) for one separator)
RECURSIVE Split(_, _)
Split(b, seps) ==
    LET cut(at) == IF at = {} THEN <<b>>
                   ELSE <<SubSeq(b, 1, MinOf(at) - 1)>>
                            \o Split(SubSeq(b, MinOf(at) + 1, Len(b)), seps)
    IN  cut({i \in 1..Len(b) : b[i] \in seps})

Ints(pieces) == [i \in 1..Len(pieces) |-> ParseInt(pieces[i])]

\* value.strftime('%Y-%m-%d') (years from 1900 on, as Python 2 requires)
strftime_date(v) == Zfill(v[2], 4) \o <<45>> \o Zfill(v[3], 2) \o <<45>> \o Zfill(v[4], 2)

\* value.strftime('%Y-%m-%d %H:%M:%S.%f')
strftime_datetime(v) ==
    strftime_date(v) \o <<32>> \o Zfill(v[5], 2) \o <<58>> \o Zfill(v[6], 2) \o <<58>>
        \o Zfill(v[7], 2) \o <<46>> \o Zfill(v[8], 6)

\* datetime.date(*[int(piece) for piece in value.split('-')])
parse_date(b) ==
    LET made(pieces) == PyDate(pieces[1], pieces[2], pieces[3])
    IN  made(Ints(Split(b, {45})))

\* datetime.datetime.strptime(value, '%Y-%m-%d %H:%M:%S.%f'); %f reads up to
\* six digits as a fraction of a second
strptime_datetime(b) ==
    LET stamp(p, digits) ==
            PyDateTime(p[1], p[2], p[3], p[4], p[5], p[6], p[7] * (10 ^ (6 - digits)))
        made(pieces) == stamp(Ints(pieces), Len(pieces[7]))
    IN  made(Split(b, {45, 32, 58, 46}))

\* `v or ''` as bytes
OrEmpty(v) == IF PyTruth(v) THEN PyText(v) ELSE <<>>

---------------------------------------------------------------------------
(* The model class.  Its fields are among f = Field(index=True),           *)
(* g = Field(index=True), n = LongField(index=True),                       *)
(* x = FloatField(index=True), d = DateField(index=True) and               *)
(* t = DateTimeField(index=True), followed by the id field the metaclass   *)
(* adds.                                                                   *)

\* class M(Model): f = Field(index=True); g = Field(index=True)
ModelFields == <<"f", "g", "id">>

FieldType ==
    [f |-> "Field", g |-> "Field", n |-> "LongField", x |-> "FloatField",
     d |-> "DateField", t |-> "DateTimeField", id |-> "LongField"]
FieldName ==
    [f |-> <<102>>, g |-> <<103>>, n |-> <<110>>, x |-> <<120>>,
     d |-> <<100>>, t |-> <<116>>, id |-> <<105, 100>>]
sorted_fields == declared
indexed_fields == SelectSeq(declared, LAMBDA f : f # "id")

\* Metadata.name: 'm'
ModelName == <<109>>
\* Metadata.sequence: 'id_seq:m'
sequence == <<105, 100, 95, 115, 101, 113, 58>> \o ModelName

\* db_value with the Long and Float fields testing `if value`
db_value_if_value(type, v) ==
    CASE type = "Field" -> v
      [] type = "LongField" -> IF PyTruth(v) THEN PyStr(Pack(v[2])) ELSE PyStr(<<>>)
      [] type = "FloatField" -> IF PyTruth(v) THEN PyStr(PackDouble(v)) ELSE PyStr(<<>>)
      [] type = "DateField" -> IF PyTruth(v) THEN PyStr(strftime_date(v)) ELSE PyNone
      [] type = "DateTimeField" -> IF PyTruth(v) THEN PyStr(strftime_datetime(v)) ELSE PyNone

\* Field.db_value of each field type
db_value(type, v) ==
    CASE type = "Field" -> v
      [] type = "LongField" -> IF v # PyNone THEN PyStr(Pack(v[2])) ELSE PyStr(<<>>)
      [] type = "FloatField" -> IF v # PyNone THEN PyStr(PackDouble(v)) ELSE PyStr(<<>>)
      [] type = "DateField" -> IF PyTruth(v) THEN PyStr(strftime_date(v)) ELSE PyNone
      [] type = "DateTimeField" -> IF PyTruth(v) THEN PyStr(strftime_datetime(v)) ELSE PyNone

\* Field.python_value of each field type
python_value(type, b) ==
    CASE type = "Field" -> PyStr(b)
      [] type = "LongField" -> IF b # <<>> THEN PyInt(Unpack(b)) ELSE PyNone
      [] type = "FloatField" -> IF b # <<>> THEN UnpackDouble(b) ELSE PyNone
      [] type = "DateField" -> IF b # <<>> THEN parse_date(b) ELSE PyNone
      [] type = "DateTimeField" -> IF b # <<>> THEN strptime_datetime(b) ELSE PyNone

EmptyData == [x \in {} |-> PyNone]

\* FieldDescriptor.__get__: instance._data.get(name)
getattr(data, name) == IF name \in DOMAIN data THEN data[name] ELSE PyNone

\* pickle.dumps of a _data dict: per field of the class, whether the dict
\* holds it and, if so, its value with its type
EncVal(v) ==
    CASE v[1] = "none" -> <<0>>
      [] v[1] = "str" -> <<1, Len(v[2])>> \o v[2]
      [] v[1] = "int" -> <<2>> \o Pack(v[2])
      [] v[1] = "float" -> <<3>> \o PackDouble(v)
      [] v[1] = "date" -> <<4>> \o Bytes4(v[2]) \o <<v[3], v[4]>>
      [] v[1] = "datetime" ->
            <<5>> \o Bytes4(v[2]) \o <<v[3], v[4], v[5], v[6], v[7]>> \o Bytes4(v[8])

RECURSIVE DumpFields(_, _)
DumpFields(data, i) ==
    IF i > Len(sorted_fields) THEN <<>>
    ELSE (IF sorted_fields[i] \in DOMAIN data
          THEN <<1>> \o EncVal(data[sorted_fields[i]]) ELSE <<0>>)
         \o DumpFields(data, i + 1)

dumps(data) == DumpFields(data, 1)

\* pickle.loads
RECURSIVE LoadFields(_, _, _, _)
LoadFields(b, pos, i, acc) ==
    IF i > Len(sorted_fields) THEN acc
    ELSE IF b[pos] = 0 THEN LoadFields(b, pos + 1, i + 1, acc)
    ELSE LET f == sorted_fields[i]
             tag == b[pos + 1]
         IN  CASE tag = 0 -> LoadFields(b, pos + 2, i + 1, SetItem(acc, f, PyNone))
               [] tag = 1 ->
                    LoadFields(b, pos + 3 + b[pos + 2], i + 1,
                               SetItem(acc, f, PyStr(SubSeq(b, pos + 3, pos + 2 + b[pos + 2]))))
               [] tag = 2 ->
                    LoadFields(b, pos + 10, i + 1,
                               SetItem(acc, f, PyInt(Unpack(SubSeq(b, pos + 2, pos + 9)))))
               [] tag = 3 ->
                    LoadFields(b, pos + 10, i + 1,
                               SetItem(acc, f, UnpackDouble(SubSeq(b, pos + 2, pos + 9))))
               [] tag = 4 ->
                    LoadFields(b, pos + 8, i + 1,
                               SetItem(acc, f, PyDate(Word(SubSeq(b, pos + 2, pos + 5)),
                                                      b[pos + 6], b[pos + 7])))
               [] tag = 5 ->
                    LoadFields(b, pos + 15, i + 1,
                               SetItem(acc, f,
                                       PyDateTime(Word(SubSeq(b, pos + 2, pos + 5)), b[pos + 6],
                                                  b[pos + 7], b[pos + 8], b[pos + 9], b[pos + 10],
                                                  Word(SubSeq(b, pos + 11, pos + 14)))))

loads(b) == LoadFields(b, 1, 1, EmptyData)

\* kyotocabinet's DB.increment(key, n, initial), as Database.incr calls it:
\* <<store, new value>>
incr(d, key, n) ==
    LET value == IF Contains(d, key) THEN Unpack(d[key]) + n ELSE 0 + n
    IN  <<SetItem(d, key, Pack(value)), value>>

\* kyotocabinet Database.decr
decr(d, key, n) == incr(d, key, n * (-1))

\* mutant: the stored value is not read, every call starts from nothing
KVHelper_incr_from_nothing(d, key, amount) ==
    <<SetItem(d, key, Pack(amount)), amount>>

\* KVHelper.incr, its first half: self[key] is read (KeyError: the key is
\* absent) and the new value computed
KVHelper_incr_read(d, key, amount) ==
    IF ~Contains(d, key) THEN amount ELSE Unpack(d[key]) + amount

\* KVHelper.incr, its second half: the new value is written and returned
KVHelper_incr_write(d, key, value) == <<SetItem(d, key, Pack(value)), value>>

\* KVHelper.incr(key, amount): <<store, returned value>>
KVHelper_incr(d, key, amount) ==
    KVHelper_incr_write(d, key, KVHelper_incr_read(d, key, amount))

\* KVHelper.decr
KVHelper_decr(d, key, amount) == KVHelper_incr(d, key, amount * (-1))

\* ForestDB.incr
ForestDB_incr(d, key, amount) ==
    LET value == IF ~Contains(d, key) THEN amount ELSE Unpack(d[key]) + amount
    IN  <<SetItem(d, key, Pack(value)), value>>

\* ForestDB.decr
ForestDB_decr(d, key, amount) == ForestDB_incr(d, key, amount * (-1))

\* mutant: the next id counts the records that exist
next_id_by_count(d) ==
    LET count == Cardinality({k \in DOMAIN d : Len(k) >= 2 /\ SubSeq(k, 1, 2) = ModelName \o <<58>>
                                              /\ \A j \in 3..Len(k) : k[j] # 58})
        value == count + 1
    IN  <<SetItem(d, sequence, Pack(value)), value>>

\* Metadata.next_id
next_id(d) == incr(d, sequence, 1)

\* Metadata.get_instance_key: '%s:%s' % (name, instance_id)
get_instance_key(idText) == ModelName \o <<58>> \o idText

field_key(idText, f) == get_instance_key(idText) \o <<58>> \o FieldName[f]

---------------------------------------------------------------------------
(* Index *)

\* Index.name: 'idx:<model>:<field>'
IndexName(f) == <<105, 100, 120, 58>> \o ModelName \o <<58>> \o FieldName[f]

stop_key(f) == IndexName(f) \o <<255, 255, 255>>

\* Index.convert_pk: the id field's db_value
convert_pk(pk) == db_value("LongField", pk)

get_key(f, value, pk) ==
    IndexName(f) \o <<255>> \o OrEmpty(db_value(FieldType[f], value))
        \o <<255>> \o PyText(convert_pk(pk))

get_prefix(f, value, closed) ==
    IF value = PyNone THEN IndexName(f) \o <<255>>
    ELSE IndexName(f) \o <<255>> \o PyText(db_value(FieldType[f], value))
            \o (IF closed THEN <<255>> ELSE <<>>)

\* Index.store
index_store(d, f, value, pk) == SetItem(d, get_key(f, value, pk), PyText(pk))

\* Index.delete
index_delete(d, f, value, pk) == DelItem(d, get_key(f, value, pk))

\* Index.store_endpoint
store_endpoint(d, f) == SetItem(d, stop_key(f), <<>>)

\* the values of a list of entries
ValuesOf(entries) == [i \in 1..Len(entries) |-> entries[i][2]]

SelectSeqKeys(entries, match) ==
    SelectSeq(entries, LAMBDA e : ~StartsWith(e[1], match))

\* the values of a slice's entries
SliceValuesOf(r) == Result(r.err, ValuesOf(r.out))

\* ... without the first entry
SliceValuesRest(r) == Result(r.err, ValuesOf(SubSeq(r.out, 2, Len(r.out))))

\* ... of the entries whose key does not start with match, without the last
SliceValuesNot(r, match) ==
    LET kept(values) == SubSeq(values, 1, Len(values) - 1)
    IN  Result(r.err, kept(ValuesOf(SelectSeqKeys(r.out, match))))

\* Index.query(value, operation): Result(raised, list of primary-key texts)
index_query(d, f, value, operation) ==
    CASE operation = "=" ->
            LET run(start_key) ==
                    SliceValuesOf(getitem_slice(d, start_key, start_key \o <<255>>, FALSE))
            IN  run(get_prefix(f, value, TRUE))
      [] operation \in {"<", "<="} ->
            LET run(start_key, end_key) ==
                    SliceValuesOf(getitem_slice(d, start_key, end_key, FALSE))
            IN  run(get_prefix(f, PyNone, FALSE),
                    get_prefix(f, value, FALSE) \o <<255>>
                        \o (IF operation = "<=" THEN <<255>> ELSE <<>>))
      [] operation \in {">", ">="} ->
            LET run(start_key, end_key) ==
                    SliceValuesRest(getitem_slice(d, start_key, end_key, FALSE))
            IN  run(stop_key(f),
                    get_prefix(f, value, FALSE)
                        \o (IF operation = ">" THEN <<255, 255>> ELSE <<>>))
      [] operation = "!=" ->
            SliceValuesNot(getitem_slice(d, get_prefix(f, PyNone, FALSE), stop_key(f), FALSE),
                           get_prefix(f, value, TRUE))
      [] operation = "startswith" ->
            LET run(start_key) ==
                    SliceValuesOf(getitem_slice(d, start_key, start_key \o <<255, 255>>, FALSE))
            IN  run(get_prefix(f, value, FALSE))

---------------------------------------------------------------------------
(* Model: reading, saving, deleting and querying instances.  An operation  *)
(* that can raise returns a record with err = TRUE.                        *)

ReadResult(err, data) == [err |-> err, data |-> data]

\* Model._read_model_data(primary_key, fields): KeyError when a key it reads
\* is not stored
_read_model_data(d, idText, fields) ==
    LET key == get_instance_key(idText)
    IN  IF serialize
        THEN IF Contains(d, key) THEN ReadResult(FALSE, loads(d[key]))
             ELSE ReadResult(TRUE, EmptyData)
        ELSE IF \E i \in 1..Len(fields) : ~Contains(d, field_key(idText, fields[i]))
             THEN ReadResult(TRUE, EmptyData)
             ELSE ReadResult(FALSE,
                     [f \in {fields[i] : i \in 1..Len(fields)} |->
                         python_value(FieldType[f], d[field_key(idText, f)])])

_read_indexed_data(d, idText) == _read_model_data(d, idText, indexed_fields)

\* the per-field writes of an unserialized save, from field i on
RECURSIVE SaveFields(_, _, _, _)
SaveFields(d, data, idText, i) ==
    IF i > Len(sorted_fields) THEN d
    ELSE LET f == sorted_fields[i]
             value == db_value(FieldType[f], getattr(data, f))
         IN  SaveFields(SetItem(d, field_key(idText, f), OrEmpty(value)), data, idText, i + 1)

\* Model._save_model_data: the store, the instance's data, whether an id was
\* assigned
_save_model_data(d, data) ==
    LET assign == ~PyTruth(getattr(data, "id"))
        written(n, data1, idText) ==
            [db |-> IF serialize THEN SetItem(n[1], get_instance_key(idText), dumps(data1))
                    ELSE SaveFields(n[1], data1, idText, 1),
             data |-> data1,
             assigned |-> assign]
        keyed(n, data1) == written(n, data1, PyText(data1["id"]))
        numbered(n) == keyed(n, IF assign THEN SetItem(data, "id", PyInt(n[2])) ELSE data)
    IN  numbered(IF assign THEN next_id(d) ELSE <<d, 0>>)

\* mutant: the entry of the new value is written only when nothing was read
\* back as the original
RECURSIVE _update_indexes_new_only(_, _, _, _, _)
_update_indexes_new_only(d, data, has_original, original_data, i) ==
    IF i > Len(indexed_fields) THEN [err |-> FALSE, db |-> d]
    ELSE LET f == indexed_fields[i]
             value == getattr(data, f)
             primary_key == getattr(data, "id")
         IN  IF has_original /\ f \notin DOMAIN original_data
             THEN [err |-> TRUE, db |-> d]
             ELSE LET d1 == IF has_original /\ original_data[f] # value
                            THEN index_delete(d, f, value, primary_key) ELSE d
                      d2 == IF has_original THEN d1
                            ELSE index_store(d1, f, value, primary_key)
                  IN  _update_indexes_new_only(store_endpoint(d2, f), data, has_original,
                                               original_data, i + 1)

\* Model._update_indexes(original_data), from indexed field i on;
\* original_data[field] raises KeyError when the dict read back lacks the field
RECURSIVE _update_indexes(_, _, _, _, _)
_update_indexes(d, data, has_original, original_data, i) ==
    IF i > Len(indexed_fields) THEN [err |-> FALSE, db |-> d]
    ELSE LET f == indexed_fields[i]
             value == getattr(data, f)
             primary_key == getattr(data, "id")
         IN  IF has_original /\ f \notin DOMAIN original_data
             THEN [err |-> TRUE, db |-> d]
             ELSE LET d1 == IF has_original /\ original_data[f] # value
                            THEN index_delete(d, f, value, primary_key) ELSE d
                      d2 == index_store(d1, f, value, primary_key)
                  IN  _update_indexes(store_endpoint(d2, f), data, has_original,
                                      original_data, i + 1)

SaveResult(err, d, data, assigned) ==
    [err |-> err, db |-> d, data |-> data, assigned |-> assigned]

\* Model._save
_save(d, data) ==
    LET has_original == PyTruth(getattr(data, "id")) /\ Len(indexed_fields) > 0
        updated(s, u) == SaveResult(u.err, u.db, s.data, s.assigned)
        saved(original, s) ==
            updated(s, _update_indexes(s.db, s.data, has_original, original.data, 1))
        run(original) ==
            IF original.err THEN SaveResult(TRUE, d, data, FALSE)
            ELSE saved(original, _save_model_data(d, data))
    IN  run(IF has_original THEN _read_indexed_data(d, PyText(getattr(data, "id")))
            ELSE ReadResult(FALSE, EmptyData))

\* mutant: Model.save(atomic=False), _save with no transaction around it
save_not_atomic(d, data) == _save(d, data)

\* Model.save(atomic=True): _save inside database.transaction()
save(d, data) ==
    LET left(r, e) == SaveResult(r.err, e[1], r.data, r.assigned)
        ended(t, r) == left(r, transaction_exit(r.db, t[3], r.err))
        entered(t) == ended(t, _save(t[1], data))
    IN  entered(begin(d))

\* the per-field removals of an unserialized delete, from field i on
RECURSIVE DeleteFields(_, _, _)
DeleteFields(d, idText, i) ==
    IF i > Len(sorted_fields) THEN d
    ELSE DeleteFields(DelItem(d, field_key(idText, sorted_fields[i])), idText, i + 1)

RECURSIVE DeleteIndexes(_, _, _)
DeleteIndexes(d, data, i) ==
    IF i > Len(indexed_fields) THEN d
    ELSE DeleteIndexes(index_delete(d, indexed_fields[i], getattr(data, indexed_fields[i]),
                                    getattr(data, "id")), data, i + 1)

\* Model._delete without the removal of the index entries
_delete_body_only(d, data) ==
    LET idText == PyText(getattr(data, "id"))
    IN  IF serialize THEN DelItem(d, get_instance_key(idText))
        ELSE DeleteFields(d, idText, 1)

\* Model._delete
_delete(d, data) ==
    LET idText == PyText(getattr(data, "id"))
        d1 == IF serialize THEN DelItem(d, get_instance_key(idText))
              ELSE DeleteFields(d, idText, 1)
    IN  DeleteIndexes(d1, data, 1)

\* Model.delete(atomic=True)
delete(d, data) ==
    LET t == begin(d)
        e == transaction_exit(_delete(t[1], data), t[3], FALSE)
    IN  e[1]

\* Model.load(primary_key)
load(d, idText) == _read_model_data(d, idText, sorted_fields)

\* expressions: <<"leaf", field, op, value>> and <<"AND" or "OR", lhs, rhs>>
Leaf(f, op, value) == <<"leaf", f, op, value>>
Node(op, lhs, rhs) == <<op, lhs, rhs>>

SetOf(seq) == {seq[i] : i \in 1..Len(seq)}

\* set(index.query(...))
AsSet(r) == Result(r.err, SetOf(r.out))

\* mutant: AND takes the union
RECURSIVE dfs_and_as_union(_, _)
dfs_and_as_union(d, expr) ==
    IF expr[1] = "leaf"
    THEN AsSet(index_query(d, expr[2], expr[4], expr[3]))
    ELSE LET combine(lhs, rhs) == Result(lhs.err \/ rhs.err, lhs.out \cup rhs.out)
         IN  combine(dfs_and_as_union(d, expr[2]), dfs_and_as_union(d, expr[3]))

\* dfs(expr) of Model.query: the set of primary-key texts the expression selects
RECURSIVE dfs(_, _)
dfs(d, expr) ==
    IF expr[1] = "leaf"
    THEN AsSet(index_query(d, expr[2], expr[4], expr[3]))
    ELSE LET combine(lhs, rhs) ==
                 Result(lhs.err \/ rhs.err,
                        IF expr[1] = "AND" THEN lhs.out \cap rhs.out
                        ELSE lhs.out \cup rhs.out)
         IN  combine(dfs(d, expr[2]), dfs(d, expr[3]))

\* sorted(id_list): ascending order of the strings
RECURSIVE sorted(_)
sorted(S) ==
    IF S = {} THEN <<>>
    ELSE LET m == LeastKey(S) IN <<m>> \o sorted(S \ {m})

\* Model.query(expr): the loaded instances, or the exception of the first
\* failure
query(d, expr) ==
    LET collect(loaded) ==
            IF \E i \in 1..Len(loaded) : loaded[i].err THEN Result(TRUE, <<>>)
            ELSE Result(FALSE, [i \in 1..Len(loaded) |-> loaded[i].data])
        load_all(order) == collect([i \in 1..Len(order) |-> load(d, order[i])])
        run(id_list) == IF id_list.err THEN Result(TRUE, <<>>)
                        ELSE load_all(sorted(id_list.out))
    IN  run(dfs(d, expr))

---------------------------------------------------------------------------
(* Hexastore.  A triple is <<s, p, o>>; a query argument left out is        *)
(* NoneKey; a Variable is a one-element sequence holding a negative number. *)

\* Hexastore.prefix: ''
hexa_prefix == <<>>

\* 's', 'p', 'o'
PartLetter == <<115, 112, 111>>

\* itertools.permutations of the three positions: spo, sop, pso, pos, osp, ops
permutations == <<<<1, 2, 3>>, <<1, 3, 2>>, <<2, 1, 3>>, <<2, 3, 1>>, <<3, 1, 2>>, <<3, 2, 1>>>>

PermName(pm) == <<PartLetter[pm[1]], PartLetter[pm[2]], PartLetter[pm[3]]>>

\* '::'.join(parts)
RECURSIVE Join(_)
Join(parts) ==
    IF Len(parts) = 0 THEN <<>>
    ELSE IF Len(parts) = 1 THEN parts[1]
    ELSE parts[1] \o <<58, 58>> \o Join(Tail(parts))

\* json.dumps({'s': s, 'p': p, 'o': o}): each term with its length
json_dumps(t) == <<Len(t[1])>> \o t[1] \o <<Len(t[2])>> \o t[2] \o <<Len(t[3])>> \o t[3]

\* json.loads
json_loads(b) ==
    LET s == SubSeq(b, 2, 1 + b[1])
        rest1 == SubSeq(b, 2 + b[1], Len(b))
        q == SubSeq(rest1, 2, 1 + rest1[1])
        rest2 == SubSeq(rest1, 2 + rest1[1], Len(rest1))
    IN  <<s, q, SubSeq(rest2, 2, 1 + rest2[1])>>

\* Hexastore.keys_for_values: the six keys of a triple
keys_for_values(t) ==
    {Join(<<hexa_prefix, PermName(permutations[i]), t[permutations[i][1]],
            t[permutations[i][2]], t[permutations[i][3]]>>) : i \in 1..Len(permutations)}

\* Database.update(data): set_bulk of the keys of data
update(d, data) ==
    [k \in (DOMAIN d) \cup (DOMAIN data) |-> IF k \in DOMAIN data THEN data[k] ELSE d[k]]

\* Hexastore.store
hexa_store(d, t) == update(d, [k \in keys_for_values(t) |-> json_dumps(t)])

\* Hexastore.delete
hexa_delete(d, t) == [k \in (DOMAIN d) \ keys_for_values(t) |-> d[k]]

\* Hexastore.keys_for_query: <<start, end>>, end NoneKey for a single key
keys_for_query(s, p, o) ==
    LET range(parts) == <<Join(parts \o <<<<>>>>), Join(parts \o <<<<255>>>>)>>
    IN  IF Truthy(s) /\ Truthy(p) /\ Truthy(o)
        THEN <<Join(<<hexa_prefix, PermName(<<1, 2, 3>>), s, p, o>>), NoneKey>>
        ELSE range(
            IF Truthy(s) /\ Truthy(p) THEN <<hexa_prefix, PermName(<<1, 2, 3>>), s, p>>
            ELSE IF Truthy(s) /\ Truthy(o) THEN <<hexa_prefix, PermName(<<1, 3, 2>>), s, o>>
            ELSE IF Truthy(p) /\ Truthy(o) THEN <<hexa_prefix, PermName(<<2, 3, 1>>), p, o>>
            ELSE IF Truthy(s) THEN <<hexa_prefix, PermName(<<1, 2, 3>>), s>>
            ELSE IF Truthy(p) THEN <<hexa_prefix, PermName(<<2, 1, 3>>), p>>
            ELSE IF Truthy(o) THEN <<hexa_prefix, PermName(<<3, 1, 2>>), o>>
            ELSE <<hexa_prefix>>)

\* the decoded values of a slice
LoadsOf(r) == Result(r.err, [i \in 1..Len(r.out) |-> json_loads(r.out[i][2])])

\* Hexastore.query: Result(raised, the triples yielded, in order)
hexa_query(d, s, p, o) ==
    LET run(k) ==
            IF k[2] = NoneKey
            THEN Result(FALSE, IF Contains(d, k[1]) THEN <<json_loads(d[k[1]])>> ELSE <<>>)
            ELSE LoadsOf(getitem_slice(d, k[1], k[2], FALSE))
    IN  run(keys_for_query(s, p, o))

\* isinstance(x, Variable)
IsVariable(x) == Len(x) = 1 /\ x[1] < -1

\* the parts of a condition that hold a Variable, in the order of
\* var_map.items(): a CPython 2 dict with the keys 's', 'p', 'o' lists them
\* as 'p', 's', 'o'
VarParts(cond) == SelectSeq(<<2, 1, 3>>, LAMBDA i : IsVariable(cond[i]))

\* query: the condition with its Variables popped
Popped(cond) == [i \in 1..3 |-> IF IsVariable(cond[i]) THEN NoneKey ELSE cond[i]]

\* the values of one part over the triples a query yields
PartValues(r, part) == {r.out[i][part] : i \in 1..Len(r.out)}

\* the state of a search: whether it raised, and results
SearchResult(err, results) == [err |-> err, results |-> results]

\* the loop over var_map_items of one condition, from its j-th item on.
\* For a Variable that results already holds, `del query[part]` raises
\* KeyError when the loop over its values never set query[part]: when its
\* binding set is empty.
RECURSIVE search_parts(_, _, _, _)
search_parts(d, cond, st, j) ==
    IF st.err \/ j > Len(VarParts(cond)) THEN st
    ELSE LET part == VarParts(cond)[j]
             var == cond[part]
             q == Popped(cond)
             bound(val) == [q EXCEPT ![part] = val]
             found(val) == PartValues(hexa_query(d, bound(val)[1], bound(val)[2],
                                                 bound(val)[3]), part)
         IN  IF var \in DOMAIN st.results
             THEN search_parts(d, cond,
                      SearchResult(st.results[var] = {},
                          [st.results EXCEPT ![var] =
                              st.results[var] \cap UNION {found(val) : val \in st.results[var]}]),
                      j + 1)
             ELSE search_parts(d, cond,
                      SearchResult(FALSE,
                          SetItem(st.results, var,
                                  PartValues(hexa_query(d, q[1], q[2], q[3]), part))),
                      j + 1)

\* the loop over the conditions, from the i-th on
RECURSIVE search_loop(_, _, _, _)
search_loop(d, conditions, st, i) ==
    IF st.err \/ i > Len(conditions) THEN st
    ELSE search_loop(d, conditions, search_parts(d, conditions[i], st, 1), i + 1)

\* Hexastore.search(conditions): Result(raised, a function from the Variables
\* to sets of terms)
search(d, conditions) ==
    LET returned(st) == Result(st.err, IF st.err THEN <<>> ELSE st.results)
    IN  returned(search_loop(d, conditions, SearchResult(FALSE, [v \in {} |-> {}]), 1))

---------------------------------------------------------------------------
(* The slice specification: puts, removes and slices of a small store *)

MaxStored == 3

\* stored keys: 'a', 'ab', 'b'
SliceKeys == {<<97>>, <<97, 98>>, <<98>>}
\* endpoints: '' (below every key), 'a', 'aa' (between 'a' and 'ab'), 'b',
\* 'c' (above every key)
SliceEnds == {<<>>, <<97>>, <<97, 97>>, <<98>>, <<99>>}
SliceValues == {<<120>>, <<121>>}

EmptyDb == [k \in {} |-> <<>>]

ClearSlice == sliceReq' = <<>> /\ sliceOut' = <<>> /\ sliceErr' = FALSE

InitSliceVars == sliceReq = <<>> /\ sliceOut = <<>> /\ sliceErr = FALSE

InitModelVars ==
    /\ serialize = FALSE
    /\ declared = ModelFields
    /\ inst = [x \in {} |-> <<"none">>]
    /\ created = <<>>
    /\ queryReq = <<>>
    /\ queryOut = <<>>

InitHexaVars == triples = {} /\ hexReq = <<>> /\ hexOut = <<>>

InitTxnVars ==
    /\ txnActive = FALSE
    /\ txnSaved = EmptyDb
    /\ txnForm = "with"
    /\ txnPre = EmptyDb
    /\ txnLog = EmptyDb
    /\ txnEnd = "none"
    /\ txnCalls = <<>>
    /\ exceptional = FALSE

InitCounterVars ==
    /\ ctrBackend = "kyoto"
    /\ ctrPending = <<>>
    /\ ctrAmounts = <<>>
    /\ ctrRets = <<>>

InitCursorVars == cur = Cursor(NoneKey, FALSE) /\ curOps = <<>> /\ curOuts = <<>>

InitSlice ==
    /\ db = EmptyDb
    /\ raised = FALSE
    /\ InitSliceVars
    /\ InitTxnVars
    /\ InitModelVars
    /\ InitHexaVars
    /\ InitCounterVars
    /\ InitCursorVars

Put(k, v) ==
    /\ Cardinality((DOMAIN db) \cup {k}) <= MaxStored
    /\ db' = SetItem(db, k, v)
    /\ ClearSlice
    /\ raised' = FALSE
    /\ UNCHANGED <<txnVars, modelVars, hexaVars, counterVars, cursorVars>>

Remove(k) ==
    /\ Contains(db, k)
    /\ db' = DelItem(db, k)
    /\ ClearSlice
    /\ raised' = FALSE
    /\ UNCHANGED <<txnVars, modelVars, hexaVars, counterVars, cursorVars>>

Slice(start, stop, step) ==
    LET done(r) ==
            /\ sliceReq' = <<start, stop, step>>
            /\ sliceOut' = r.out
            /\ sliceErr' = r.err
            /\ raised' = r.err
            /\ UNCHANGED <<db, txnVars, modelVars, hexaVars, counterVars, cursorVars>>
    IN  done(getitem_slice(db, start, stop, step))

NextSlice ==
    \/ \E k \in SliceKeys, v \in SliceValues : Put(k, v)
    \/ \E k \in SliceKeys : Remove(k)
    \/ \E a \in SliceEnds \cup {NoneKey}, b \in SliceEnds \cup {NoneKey}, s \in BOOLEAN :
          Slice(a, b, s)

SpecSlice == InitSlice /\ [][NextSlice]_vars

\* the entries of d with lo <= key <= hi, as a set
Between(d, lo, hi) ==
    {<<k, d[k]>> : k \in {x \in DOMAIN d : ~LexLess(x, lo) /\ ~LexLess(hi, x)}}

\* seq lists exactly the entries of S, keys strictly ascending (descending)
IsAscendingOf(seq, S) ==
    /\ Len(seq) = Cardinality(S)
    /\ {seq[i] : i \in 1..Len(seq)} = S
    /\ \A i \in 1..Len(seq) - 1 : LexLess(seq[i][1], seq[i + 1][1])
IsDescendingOf(seq, S) ==
    /\ Len(seq) = Cardinality(S)
    /\ {seq[i] : i \in 1..Len(seq)} = S
    /\ \A i \in 1..Len(seq) - 1 : LexLess(seq[i + 1][1], seq[i][1])

\* C3: a slice with both endpoints present and no step yields exactly the
\* entries between the endpoints, both included: ascending when start <= stop,
\* descending when start > stop, and raises nothing.
C3_SliceInclusive ==
    (sliceReq # <<>> /\ sliceReq[1] # NoneKey /\ sliceReq[2] # NoneKey /\ ~sliceReq[3]) =>
        /\ ~sliceErr
        /\ IF ~LexLess(sliceReq[2], sliceReq[1])
           THEN IsAscendingOf(sliceOut, Between(db, sliceReq[1], sliceReq[2]))
           ELSE IsDescendingOf(sliceOut, Between(db, sliceReq[2], sliceReq[1]))

\* db['c':'aa'] over the keys a, ab, b: the start lies above the last key and
\* the stop between two keys; the slice yielded b then ab.
C3_Witness ==
    /\ sliceReq = <<<<99>>, <<97, 97>>, FALSE>>
    /\ Len(sliceOut) = 2
    /\ sliceOut[1][1] = <<98>>
    /\ sliceOut[2][1] = <<97, 98>>
    /\ Cardinality(DOMAIN db) = 3

\* the entries of d with key >= lo, and with key <= hi, as sets
From(d, lo) == {<<k, d[k]>> : k \in {x \in DOMAIN d : ~LexLess(x, lo)}}
UpTo(d, hi) == {<<k, d[k]>> : k \in {x \in DOMAIN d : ~LexLess(hi, x)}}

\* C19: a reverse slice with one endpoint raises nothing; db[:k:True] yields
\* the entries with key >= k in descending order, from the last key of the
\* store down to k, and db[k::True] the entries with key <= k in descending
\* order, from k down to the first key.
C19_ReverseOneEndpoint ==
    (sliceReq # <<>> /\ sliceReq[3] /\ (sliceReq[1] = NoneKey) # (sliceReq[2] = NoneKey)) =>
        /\ ~sliceErr
        /\ IF sliceReq[1] = NoneKey
           THEN IsDescendingOf(sliceOut, From(db, sliceReq[2]))
           ELSE IsDescendingOf(sliceOut, UpTo(db, sliceReq[1]))

\* C20: a forward slice with an absent endpoint raises nothing and yields, in
\* ascending key order, every entry with key <= b for db[:b], every entry with
\* key >= a for db[a:], and every entry of the store for db[:].
C20_AbsentEndpoint ==
    (sliceReq # <<>> /\ ~sliceReq[3] /\ (sliceReq[1] = NoneKey \/ sliceReq[2] = NoneKey)) =>
        /\ ~sliceErr
        /\ IsAscendingOf(sliceOut,
              IF sliceReq[1] # NoneKey THEN From(db, sliceReq[1])
              ELSE IF sliceReq[2] # NoneKey THEN UpTo(db, sliceReq[2])
              ELSE {<<k, db[k]>> : k \in DOMAIN db})

---------------------------------------------------------------------------
(* The transaction specification: writes inside and outside transaction    *)
(* scopes, entered by `with db.transaction()` or through the decorator     *)

\* 'k1', 'k2' and 'v1', 'v2'
TxnKeys == {<<107, 49>>, <<107, 50>>}
TxnValues == {<<118, 49>>, <<118, 50>>}
TxnForms == {"with", "decorator"}
Deleted == <<-2>>

InitTxn ==
    /\ db = EmptyDb
    /\ raised = FALSE
    /\ InitSliceVars
    /\ InitTxnVars
    /\ InitModelVars
    /\ InitHexaVars
    /\ InitCounterVars
    /\ InitCursorVars

\* transaction.__enter__, reached by `with` or by calling a decorated function
Enter(form) ==
    /\ ~txnActive
    /\ LET r == begin(db)
       IN  /\ db' = r[1]
           /\ txnActive' = r[2]
           /\ txnSaved' = r[3]
    /\ txnForm' = form
    /\ txnPre' = db
    /\ txnLog' = EmptyDb
    /\ txnEnd' = "open"
    /\ txnCalls' = <<"begin">>
    /\ raised' = FALSE
    /\ UNCHANGED <<sliceVars, modelVars, hexaVars, counterVars, cursorVars, exceptional>>

Write(k, v) ==
    /\ db' = SetItem(db, k, v)
    /\ txnLog' = IF txnActive THEN SetItem(txnLog, k, v) ELSE txnLog
    /\ txnEnd' = IF txnActive THEN txnEnd ELSE "none"
    /\ raised' = FALSE
    /\ UNCHANGED <<modelVars, hexaVars, sliceVars, txnActive, txnSaved, txnForm, txnPre, txnCalls, exceptional, counterVars, cursorVars>>

Delete(k) ==
    /\ db' = DelItem(db, k)
    /\ txnLog' = IF txnActive THEN SetItem(txnLog, k, Deleted) ELSE txnLog
    /\ txnEnd' = IF txnActive THEN txnEnd ELSE "none"
    /\ raised' = FALSE
    /\ UNCHANGED <<modelVars, hexaVars, sliceVars, txnActive, txnSaved, txnForm, txnPre, txnCalls, exceptional, counterVars, cursorVars>>

\* the scope's body returns (exc FALSE) or raises (exc TRUE)
Exit(exc) ==
    /\ txnActive
    /\ LET r == transaction_exit(db, txnSaved, exc)
       IN  /\ db' = r[1]
           /\ txnActive' = r[2]
           /\ txnSaved' = r[3]
    /\ txnEnd' = IF exc THEN "exception" ELSE "normal"
    /\ txnCalls' = Append(txnCalls, IF exc THEN "rollback" ELSE "commit")
    /\ raised' = exc
    /\ UNCHANGED <<modelVars, hexaVars, sliceVars, txnForm, txnPre, txnLog, exceptional,
                   counterVars, cursorVars>>

NextTxn ==
    \/ \E form \in TxnForms : Enter(form)
    \/ \E k \in TxnKeys, v \in TxnValues : Write(k, v)
    \/ \E k \in TxnKeys : Delete(k)
    \/ \E exc \in BOOLEAN : Exit(exc)

SpecTxn == InitTxn /\ [][NextTxn]_vars

\* C4: once a transaction scope has been left normally, everything it wrote
\* is in the store and nothing was raised; once it has been left by an
\* exception, the store is what it was at entry and the exception has reached
\* the caller; for the `with` form and the decorator form alike.
C4_CommitOrRollback ==
    /\ txnEnd = "normal" =>
          /\ ~raised
          /\ \A k \in DOMAIN txnLog :
                IF txnLog[k] = Deleted THEN ~Contains(db, k)
                ELSE Contains(db, k) /\ db[k] = txnLog[k]
    /\ txnEnd = "exception" => raised /\ db = txnPre

\* a decorated function overwrote k1 and deleted k2, then raised: both writes
\* were undone.
C4_Witness ==
    /\ txnEnd = "exception"
    /\ txnForm = "decorator"
    /\ DOMAIN txnLog = TxnKeys
    /\ txnLog[<<107, 50>>] = Deleted
    /\ Contains(db, <<107, 50>>)
    /\ Contains(db, <<107, 49>>) /\ db[<<107, 49>>] # txnLog[<<107, 49>>]

---------------------------------------------------------------------------
(* The model specification: one instance in hand; records are created,     *)
(* loaded, changed, saved and deleted through it                           *)

MaxId == 2

\* field values: 'a', 'b' for f and 'a' for g
ModelValues == [f |-> {PyStr(<<97>>), PyStr(<<98>>)}, g |-> {PyStr(<<97>>)}]

\* keyword arguments of Model(...) / Model.create(...)
ModelKwargs ==
    {EmptyData} \cup {[x \in {"f"} |-> v] : v \in ModelValues.f}
        \cup {[x \in {"f", "g"} |-> PyStr(<<97>>)]}

ClearQuery == queryReq' = <<>> /\ queryOut' = <<>>

InitModel ==
    /\ db = EmptyDb
    /\ raised = FALSE
    /\ InitSliceVars
    /\ InitTxnVars
    /\ InitHexaVars
    /\ InitCounterVars
    /\ InitCursorVars
    /\ serialize \in BOOLEAN
    /\ declared = ModelFields
    /\ inst = EmptyData
    /\ created = <<>>
    /\ queryReq = <<>>
    /\ queryOut = <<>>

\* Model.create(**kwargs)
ModelCreate(kwargs) ==
    /\ LET done(r) ==
               /\ db' = r.db
               /\ inst' = r.data
               /\ raised' = r.err
               /\ created' = IF r.assigned THEN Append(created, r.data["id"][2]) ELSE created
       IN  done(save(db, kwargs))
    /\ ClearQuery
    /\ UNCHANGED <<serialize, declared, sliceVars, txnVars, hexaVars, counterVars, cursorVars>>

\* instance = Model.load(pk)
ModelLoad(pk) ==
    /\ LET done(r) ==
               /\ inst' = IF r.err THEN inst ELSE r.data
               /\ raised' = r.err
       IN  done(load(db, Str(pk)))
    /\ ClearQuery
    /\ UNCHANGED <<db, serialize, declared, created, sliceVars, txnVars, hexaVars, counterVars, cursorVars>>

\* instance.<field> = value
SetAttr(f, value) ==
    /\ inst' = SetItem(inst, f, value)
    /\ raised' = FALSE
    /\ ClearQuery
    /\ UNCHANGED <<db, serialize, declared, created, sliceVars, txnVars, hexaVars, counterVars, cursorVars>>

\* instance.save()
ModelSave ==
    /\ LET done(r) ==
               /\ db' = r.db
               /\ inst' = r.data
               /\ raised' = r.err
               /\ created' = IF r.assigned THEN Append(created, r.data["id"][2]) ELSE created
       IN  done(save(db, inst))
    /\ ClearQuery
    /\ UNCHANGED <<serialize, declared, sliceVars, txnVars, hexaVars, counterVars, cursorVars>>

\* instance.delete()
ModelDelete ==
    /\ db' = delete(db, inst)
    /\ raised' = FALSE
    /\ ClearQuery
    /\ UNCHANGED <<serialize, declared, inst, created, sliceVars, txnVars, hexaVars, counterVars, cursorVars>>

\* creates and first saves while fewer than MaxId ids are assigned
Create(kwargs) == Len(created) < MaxId /\ ModelCreate(kwargs)
Save == (PyTruth(getattr(inst, "id")) \/ Len(created) < MaxId) /\ ModelSave

NextModel ==
    \/ \E kwargs \in ModelKwargs : Create(kwargs)
    \/ \E pk \in 1..MaxId : ModelLoad(pk)
    \/ \E f \in {"f", "g"} : \E value \in ModelValues[f] : SetAttr(f, value)
    \/ Save
    \/ ModelDelete

SpecModel == InitModel /\ [][NextModel]_vars

\* the record with this id can be loaded
Live(d, pk) == ~load(d, Str(pk)).err

\* the value of field f that the record with this id holds in the store
Persisted(d, pk, f) == getattr(load(d, Str(pk)).data, f)

\* the ids Index(f).query(v, '=') returns
EqualIds(d, f, v) == SetOf(index_query(d, f, v, "=").out)

\* C1: index soundness.  Whatever creates, saves (also of a changed indexed
\* field) and deletes have run, every id that Index(f).query(v, '=') returns
\* is the id of a live record whose persisted value of f is v.
C1_IndexSound ==
    \A f \in {"f", "g"} : \A v \in ModelValues[f] :
        /\ ~index_query(db, f, v, "=").err
        /\ \A t \in EqualIds(db, f, v) :
              \E pk \in 1..MaxId : t = Str(pk) /\ Live(db, pk) /\ Persisted(db, pk, f) = v

\* C2: index completeness.  Whatever creates, saves and deletes have run,
\* for every indexed field f and every live record whose persisted value of f
\* is a non-null value v, Index(f).query(v, '=') returns the record's id.
C2_IndexComplete ==
    \A f \in {"f", "g"} : \A pk \in 1..MaxId :
        (Live(db, pk) /\ Persisted(db, pk, f) # PyNone) =>
            /\ ~index_query(db, f, Persisted(db, pk, f), "=").err
            /\ Str(pk) \in EqualIds(db, f, Persisted(db, pk, f))

\* a live record holds 'b' in f after a save changed it from 'a', next to a
\* second live record
C2_Witness ==
    /\ Live(db, 1) /\ Live(db, 2)
    /\ Persisted(db, 1, "f") = PyStr(<<98>>)
    /\ Str(1) \in EqualIds(db, "f", PyStr(<<97>>))
    /\ Str(1) \in EqualIds(db, "f", PyStr(<<98>>))

\* C5: the ids save assigns to instances without an id are 1, 2, 3, ... in
\* the order of assignment, so each differs from every id assigned before it,
\* also from the ids of records deleted since.
C5_IdsIncrease ==
    /\ \A i \in 1..Len(created) : created[i] = i
    /\ \A i, j \in 1..Len(created) : i < j => created[i] < created[j]

\* a second id was assigned and the record of the first id is deleted
C5_Witness ==
    /\ Len(created) = 2
    /\ ~Live(db, created[1])
    /\ Live(db, created[2])
    /\ inst = load(db, Str(created[2])).data

\* the keys of the body of the record with this id
BodyKeys(idText) ==
    IF serialize THEN {get_instance_key(idText)}
    ELSE {field_key(idText, sorted_fields[i]) : i \in 1..Len(sorted_fields)}

\* the key of the index entry of each indexed field of an instance
IndexKeys(data) ==
    {get_key(indexed_fields[i], getattr(data, indexed_fields[i]), getattr(data, "id")) :
        i \in 1..Len(indexed_fields)}

\* the instance in hand is saved and unmodified: its record is live and each
\* indexed field holds the value the record holds in the store
SavedUnmodified ==
    /\ PyTruth(getattr(inst, "id"))
    /\ Live(db, inst["id"][2])
    /\ \A i \in 1..Len(indexed_fields) :
           LET f == indexed_fields[i]
           IN  OrEmpty(db_value(FieldType[f], getattr(inst, f)))
                   = OrEmpty(db_value(FieldType[f], Persisted(db, inst["id"][2], f)))

\* C17: delete() of a saved, unmodified instance removes exactly the body
\* keys of its record (the one key of a serialized record, the key of every
\* field, id included, otherwise) and its index entry of each indexed field,
\* all present before, and leaves every other key and value of the store as
\* it was: the other records, their index entries, the sentinels, the id
\* sequence.
C17_DeleteFrame ==
    [][(SavedUnmodified /\ ModelDelete) =>
          LET removed == BodyKeys(PyText(inst["id"])) \cup IndexKeys(inst)
          IN  /\ removed \subseteq DOMAIN db
              /\ DOMAIN db' = (DOMAIN db) \ removed
              /\ \A k \in DOMAIN db' : db'[k] = db[k]]_vars

\* record 1 was deleted through the instance in hand: no body key and no
\* index entry of it is left, while record 2, its index entries, the sentinels
\* and the id sequence are there
C17_Witness ==
    /\ getattr(inst, "id") = PyInt(1)
    /\ ~raised
    /\ BodyKeys(Str(1)) \cap DOMAIN db = {}
    /\ IndexKeys(inst) \cap DOMAIN db = {}
    /\ \A f \in {"f", "g"} : \A v \in ModelValues[f] : Str(1) \notin EqualIds(db, f, v)
    /\ Live(db, 2)
    /\ Str(2) \in EqualIds(db, "f", PyStr(<<97>>))
    /\ Contains(db, stop_key("f")) /\ Contains(db, stop_key("g")) /\ Contains(db, sequence)

\* C28: save and delete with atomic=True are all-or-nothing: when a create,
\* a save or a delete raises, at whatever step, the store holds afterwards
\* exactly the keys and values it held before the call (no id sequence
\* increment, body key, index entry or sentinel of the failed call remains),
\* and the error has reached the caller.
C28_AllOrNothing ==
    [][((ModelSave \/ ModelDelete \/ \E kwargs \in ModelKwargs : ModelCreate(kwargs))
            /\ raised') => db' = db]_vars

\* both records are live, so no load fails: the instance of record 1, loaded
\* from a serialized record that holds no f, was given f = 'a' and its save
\* raised after the body was written; the record in the store still holds no f
C28_Witness ==
    /\ raised
    /\ serialize
    /\ Live(db, 1) /\ Live(db, 2)
    /\ getattr(inst, "id") = PyInt(1)
    /\ getattr(inst, "f") = PyStr(<<97>>)
    /\ "f" \notin DOMAIN load(db, Str(1)).data

\* C29: re-saving is idempotent: save() of an instance whose record is live
\* and whose fields are unchanged raises nothing and leaves the store exactly
\* as it was (body keys and values, index entries, id sequence) and the
\* instance's id as it was; for serialized and unserialized models, whether
\* or not every indexed field of the instance was given a value.
C29_ResaveIdempotent ==
    [][(SavedUnmodified /\ ModelSave) =>
          /\ ~raised'
          /\ db' = db
          /\ getattr(inst', "id") = getattr(inst, "id")]_vars

\* the keys of the entries of the index of f, its sentinel left out
IndexEntries(d, f) ==
    {k \in DOMAIN d : StartsWith(k, IndexName(f) \o <<255>>) /\ k # stop_key(f)}

\* the entries of the index of f that carry this id
EntriesOf(d, f, pk) == {k \in IndexEntries(d, f) : d[k] = Str(pk)}

\* C21: in every state that creates, saves and deletes reach, the entries of
\* the index of f, the sentinel aside, correspond one to one to the live
\* records whose f is non-null: such a record has exactly one entry, the one
\* of its value; a live record whose f is null has none; and every entry is
\* the entry of a live record.
C21_IndexBijection ==
    \A f \in {"f", "g"} :
        /\ \A pk \in 1..MaxId :
              Live(db, pk) =>
                  IF Persisted(db, pk, f) = PyNone THEN EntriesOf(db, f, pk) = {}
                  ELSE EntriesOf(db, f, pk) = {get_key(f, Persisted(db, pk, f), PyInt(pk))}
        /\ \A k \in IndexEntries(db, f) :
              \E pk \in 1..MaxId : Live(db, pk) /\ db[k] = Str(pk)

---------------------------------------------------------------------------
(* The query specification: records with two indexed fields are created    *)
(* and deleted, and queried with leaf, AND / OR and nested expressions     *)

\* keyword arguments: (f, g) = ('a', 'a'), ('a', 'b'), ('b', 'a')
QueryKwargs ==
    {[f |-> PyStr(<<97>>), g |-> PyStr(<<97>>)],
     [f |-> PyStr(<<97>>), g |-> PyStr(<<98>>)],
     [f |-> PyStr(<<98>>), g |-> PyStr(<<97>>)]}

\* (M.f == 'a'), (M.g == 'a'), (M.g >= 'b')
QueryLeaves ==
    <<Leaf("f", "=", PyStr(<<97>>)), Leaf("g", "=", PyStr(<<97>>)),
      Leaf("g", ">=", PyStr(<<98>>))>>

QueryOps == {"AND", "OR"}

QueryExprs ==
    SetOf(QueryLeaves)
        \cup {Node(op, QueryLeaves[i], QueryLeaves[j]) :
                 op \in QueryOps, i \in 1..2, j \in 2..3}
        \cup {Node(op1, Node(op2, QueryLeaves[1], QueryLeaves[2]), QueryLeaves[3]) :
                 op1 \in QueryOps, op2 \in QueryOps}
        \cup {Node(op, QueryLeaves[1], Node(op, QueryLeaves[2], QueryLeaves[3])) :
                 op \in QueryOps}

\* Model.query(expr)
Query(expr) ==
    /\ LET done(r) ==
               /\ queryReq' = expr
               /\ queryOut' = r.out
               /\ raised' = r.err
       IN  done(query(db, expr))
    /\ UNCHANGED <<db, serialize, declared, inst, created, sliceVars, txnVars, hexaVars, counterVars, cursorVars>>

NextQuery ==
    \/ \E kwargs \in QueryKwargs : Create(kwargs)
    \/ \E pk \in 1..MaxId : ModelLoad(pk)
    \/ ModelDelete
    \/ \E expr \in QueryExprs : Query(expr)

SpecQuery == InitModel /\ [][NextQuery]_vars

\* the ids of a list of instances
IdsOf(instances) == {getattr(instances[i], "id") : i \in 1..Len(instances)}

\* the id set an expression selects: the ids of the instances Model.query returns
Selected(d, expr) == IdsOf(query(d, expr).out)

\* C6: query set semantics.  The id set Model.query(A & B) selects is the
\* intersection of the id sets A and B select, the id set Model.query(A | B)
\* selects is their union, for leaves and for nested A and B.
C6_QuerySets ==
    (queryReq # <<>> /\ queryReq[1] \in QueryOps) =>
        /\ ~raised
        /\ ~query(db, queryReq[2]).err /\ ~query(db, queryReq[3]).err
        /\ IdsOf(queryOut) =
              IF queryReq[1] = "AND"
              THEN Selected(db, queryReq[2]) \cap Selected(db, queryReq[3])
              ELSE Selected(db, queryReq[2]) \cup Selected(db, queryReq[3])

\* a nested AND of an OR selected one of two live records, and neither side
\* alone selects just that
C6_Witness ==
    /\ queryReq = Node("AND", Node("OR", QueryLeaves[1], QueryLeaves[2]), QueryLeaves[3])
    /\ Cardinality(IdsOf(queryOut)) = 1
    /\ Cardinality(Selected(db, queryReq[2])) = 2
    /\ Live(db, 1) /\ Live(db, 2)

---------------------------------------------------------------------------
(* The ordering specification: ids reach two digits while at most MaxLive  *)
(* records are live                                                        *)

MaxSortId == 10
MaxLive == 2

LiveCount(d) == Cardinality({pk \in 1..MaxSortId : Live(d, pk)})

\* M.create(f='a') while fewer than MaxLive records are live
SortCreate ==
    /\ Len(created) < MaxSortId
    /\ LiveCount(db) < MaxLive
    /\ ModelCreate([f |-> PyStr(<<97>>)])

NextSort ==
    \/ SortCreate
    \/ \E pk \in 1..MaxId : ModelLoad(pk)
    \/ ModelDelete
    \/ Query(Leaf("f", "=", PyStr(<<97>>)))

SpecSort == InitModel /\ [][NextSort]_vars

\* C7: Model.query returns the instances in ascending order of their integer
\* ids.
C7_AscendingIds ==
    (queryReq # <<>> /\ ~raised) =>
        \A i, j \in 1..Len(queryOut) :
            i < j => getattr(queryOut[i], "id")[2] < getattr(queryOut[j], "id")[2]

---------------------------------------------------------------------------
(* The hexastore specification: triples over terms with and without ':'     *)
(* are stored and deleted, queried and searched                            *)

MaxTriples == 2

\* terms 'a', 'b', ':a', 'a:'
TermA == <<97>>
TermB == <<98>>
ColonA == <<58, 97>>
AColon == <<97, 58>>

HexTriples ==
    {<<TermA, TermA, TermA>>, <<TermA, TermA, TermB>>, <<TermB, TermA, TermA>>,
     <<TermA, ColonA, TermA>>, <<AColon, TermA, TermA>>, <<TermA, TermA, AColon>>}

HexTerms == {TermA, TermB, ColonA, AColon}

\* query arguments: left out, 'a' or 'b'
HexArgs == {NoneKey, TermA, TermB}

\* the Variable X
VarX == <<-10>>

\* conditions with one occurrence of X
HexConditions == <<<<TermA, TermA, VarX>>, <<VarX, TermA, TermA>>, <<TermA, VarX, TermA>>>>

HexSearches ==
    {<<HexConditions[i]>> : i \in 1..3}
        \cup {<<HexConditions[i], HexConditions[j]>> : i \in 1..3, j \in 1..3}

ClearHex == hexReq' = <<>> /\ hexOut' = <<>>

InitHexa ==
    /\ db = EmptyDb
    /\ raised = FALSE
    /\ InitSliceVars
    /\ InitTxnVars
    /\ InitModelVars
    /\ InitHexaVars
    /\ InitCounterVars
    /\ InitCursorVars

\* h.store(s, p, o)
Store(t) ==
    /\ Cardinality(triples \cup {t}) <= MaxTriples
    /\ db' = hexa_store(db, t)
    /\ triples' = triples \cup {t}
    /\ raised' = FALSE
    /\ ClearHex
    /\ UNCHANGED <<sliceVars, txnVars, modelVars, counterVars, cursorVars>>

\* h.delete(s, p, o)
HexDelete(t) ==
    /\ db' = hexa_delete(db, t)
    /\ triples' = triples \ {t}
    /\ raised' = FALSE
    /\ ClearHex
    /\ UNCHANGED <<sliceVars, txnVars, modelVars, counterVars, cursorVars>>

\* list(h.query(s, p, o))
HexQuery(s, p, o) ==
    /\ LET r == hexa_query(db, s, p, o)
       IN  /\ hexReq' = <<"query", s, p, o>>
           /\ hexOut' = r.out
           /\ raised' = r.err
    /\ UNCHANGED <<db, triples, sliceVars, txnVars, modelVars, counterVars, cursorVars>>

\* h.search(conditions)
Search(conditions) ==
    /\ LET done(r) ==
               /\ hexReq' = <<"search", conditions>>
               /\ hexOut' = r.out
               /\ raised' = r.err
       IN  done(search(db, conditions))
    /\ UNCHANGED <<db, triples, sliceVars, txnVars, modelVars, counterVars, cursorVars>>

NextHexa ==
    \/ \E t \in HexTriples : Store(t)
    \/ \E t \in HexTriples : HexDelete(t)
    \/ \E s \in HexArgs, p \in HexArgs, o \in HexArgs : HexQuery(s, p, o)
    \/ \E conditions \in HexSearches : Search(conditions)

SpecHexa == InitHexa /\ [][NextHexa]_vars

\* C8: the six-key invariant.  After any stores and deletes of triples of
\* non-empty terms, each triple stored and not deleted since has its six
\* permutation keys, all holding its JSON encoding, and each other triple has
\* none of its six keys: no store or delete touches a key of another triple.
C8_SixKeys ==
    \A t \in HexTriples :
        IF t \in triples
        THEN \A k \in keys_for_values(t) : Contains(db, k) /\ db[k] = json_dumps(t)
        ELSE \A k \in keys_for_values(t) : ~Contains(db, k)

\* the stored triples that agree with every bound term of a pattern
Matching(s, p, o) ==
    {t \in triples : /\ (Truthy(s) => t[1] = s)
                      /\ (Truthy(p) => t[2] = p)
                      /\ (Truthy(o) => t[3] = o)}

\* C9: Hexastore.query with at least one bound term yields exactly the
\* stored triples that agree with every bound term, each of them once.
C9_QueryExact ==
    (hexReq # <<>> /\ hexReq[1] = "query"
            /\ (Truthy(hexReq[2]) \/ Truthy(hexReq[3]) \/ Truthy(hexReq[4]))) =>
        /\ ~raised
        /\ SetOf(hexOut) = Matching(hexReq[2], hexReq[3], hexReq[4])
        /\ Len(hexOut) = Cardinality(SetOf(hexOut))

\* a condition with the term v in the place of its Variable
Substituted(cond, v) == [i \in 1..3 |-> IF IsVariable(cond[i]) THEN v ELSE cond[i]]

\* C10: a search whose conditions each hold one occurrence of X, and
\* constants, binds X to exactly the terms v for which every condition, with
\* v put for X, is a stored triple.
C10_SearchConjunctive ==
    (hexReq # <<>> /\ hexReq[1] = "search") =>
        /\ ~raised
        /\ DOMAIN hexOut = {VarX}
        /\ hexOut[VarX] =
              {v \in HexTerms : \A i \in 1..Len(hexReq[2]) :
                                    Substituted(hexReq[2][i], v) \in triples}

-----------------------------------------------------------------------------
\* Searches with two Variables over a graph of one predicate, whose terms hold
\* no ':'.

TermC == <<99>>
TermF == <<102>>
VarY == <<-11>>

BindTerms == {TermA, TermB, TermC}
BindTriples == {<<s, TermF, o>> : s \in BindTerms, o \in BindTerms}

\* a condition binding X, then a condition holding X and the unbound Y
BindSearches ==
    {<<first_cond, second_cond>> :
        first_cond \in {<<VarX, TermF, TermC>>, <<TermC, TermF, VarX>>},
        second_cond \in {<<VarY, TermF, VarX>>, <<VarX, TermF, VarY>>}}

\* the condition (X, f, X) alone
SelfSearches == {<<<<VarX, TermF, VarX>>>>}

NextBind ==
    \/ \E t \in BindTriples : Store(t)
    \/ \E t \in BindTriples : HexDelete(t)
    \/ \E conditions \in BindSearches \cup SelfSearches : Search(conditions)

SpecBind == InitHexa /\ [][NextBind]_vars

\* the part of a condition holding the Variable var
PartOf(cond, var) == CHOOSE i \in 1..3 : cond[i] = var

\* C11: when (X, f, c) or (c, f, X) has bound X, a following condition with X
\* and the unbound Y binds Y only to terms of stored triples of that predicate
\* whose value at the position of X is in the binding set X had when the
\* condition was processed.
C11_BoundVariableFilters ==
    (hexReq # <<>> /\ hexReq[1] = "search" /\ Len(hexReq[2]) = 2
        /\ VarY \in {hexReq[2][2][1], hexReq[2][2][3]}) =>
        LET first_cond == hexReq[2][1]
            second_cond == hexReq[2][2]
            bound == {t[PartOf(first_cond, VarX)] :
                          t \in {u \in triples : Substituted(first_cond, u[PartOf(first_cond, VarX)]) = u}}
        IN  \/ raised
            \/ /\ VarY \in DOMAIN hexOut
               /\ \A y \in hexOut[VarY] :
                      \E t \in triples : /\ t[2] = second_cond[2]
                                         /\ t[PartOf(second_cond, VarY)] = y
                                         /\ t[PartOf(second_cond, VarX)] \in bound

\* C27: a search of (X, f, X), a condition holding X twice, that returns
\* binds X only to values v for which one stored triple (v, f, v) has v both
\* as its subject and as its object.
C27_RepeatedVariable ==
    (hexReq # <<>> /\ hexReq[1] = "search" /\ hexReq[2] \in SelfSearches /\ ~raised) =>
        /\ VarX \in DOMAIN hexOut
        /\ \A v \in hexOut[VarX] : <<v, TermF, v>> \in triples

\* a list of two conditions, the other way round
Swapped(conditions) == <<conditions[2], conditions[1]>>

\* C26: the result of search does not depend on the order of its
\* conditions: over the same stored triples, the search of two conditions
\* and the search of the same conditions in the other order raise alike and
\* return the same mapping from Variable to value set.
C26_OrderIndependent ==
    (hexReq # <<>> /\ hexReq[1] = "search" /\ Len(hexReq[2]) = 2) =>
        /\ search(db, Swapped(hexReq[2])).err = raised
        /\ ~raised => search(db, Swapped(hexReq[2])).out = hexOut

-----------------------------------------------------------------------------
(* The index specification: records of a class with one indexed field, a   *)
(* String field f or a Long field n, are created, changed, saved and       *)
(* deleted, and the index is queried with each comparison.                 *)

\* class S(Model): f = Field(index=True);  class L(Model): n = LongField(index=True)
IndexClasses == {<<"f", "id">>, <<"n", "id">>}

\* the values given to the indexed field: 'ab', 'b' and 1, 256
IndexValues ==
    [f |-> {PyStr(<<97, 98>>), PyStr(<<98>>)},
     n |-> {PyInt(1), PyInt(256)}]

\* the literals of the comparisons: 'a', 'b' and 1, 2
IndexLiterals ==
    [f |-> {PyStr(<<97>>), PyStr(<<98>>)},
     n |-> {PyInt(1), PyInt(2)}]

\* the literals of '!=': '', 'a', 'b' and 1, 2
IndexExcluded ==
    [f |-> {PyStr(<<>>), PyStr(<<97>>), PyStr(<<98>>)},
     n |-> {PyInt(1), PyInt(2)}]

\* the comparisons of a field of each type
IndexOps ==
    [f |-> {"<", "<=", ">", ">=", "startswith"},
     n |-> {"=", "<", "<=", ">", ">="}]

InitIndex ==
    /\ db = EmptyDb
    /\ raised = FALSE
    /\ InitSliceVars
    /\ InitTxnVars
    /\ InitHexaVars
    /\ InitCounterVars
    /\ InitCursorVars
    /\ serialize = FALSE
    /\ declared \in IndexClasses
    /\ inst = EmptyData
    /\ created = <<>>
    /\ queryReq = <<>>
    /\ queryOut = <<>>

\* index.query(value, operation) of the index of field f
IndexQuery(f, operation, value) ==
    /\ LET done(r) ==
               /\ queryReq' = <<"index", f, operation, value>>
               /\ queryOut' = r.out
               /\ raised' = r.err
       IN  done(index_query(db, f, value, operation))
    /\ UNCHANGED <<db, serialize, declared, inst, created, sliceVars, txnVars, hexaVars, counterVars, cursorVars>>

\* a query of a program that holds no query result
QueryNext(expr) == queryReq = <<>> /\ Query(expr)
IndexQueryNext(f, operation, value) == queryReq = <<>> /\ IndexQuery(f, operation, value)

\* the program drops the result of its query
Drop ==
    /\ queryReq # <<>>
    /\ raised' = FALSE
    /\ ClearQuery
    /\ UNCHANGED <<db, serialize, declared, inst, created, sliceVars, txnVars, hexaVars, counterVars, cursorVars>>

NextIndex ==
    \/ \E value \in IndexValues[declared[1]] : Create([x \in {declared[1]} |-> value])
    \/ \E value \in IndexValues[declared[1]] : SetAttr(declared[1], value)
    \/ Save
    \/ ModelDelete
    \/ \E op \in IndexOps[declared[1]] : \E value \in IndexLiterals[declared[1]] :
           QueryNext(Leaf(declared[1], op, value))
    \/ \E value \in IndexExcluded[declared[1]] : IndexQueryNext(declared[1], "!=", value)
    \/ Drop

SpecIndex == InitIndex /\ [][NextIndex]_vars

\* the ids of the live records whose persisted value of f satisfies holds
Matches(d, f, holds(_)) ==
    {PyInt(pk) : pk \in {q \in 1..MaxId : Live(d, q) /\ holds(Persisted(d, q, f))}}

\* the last operation was Model.query(f op c) with op among ops
IsLeaf(f, ops) ==
    queryReq # <<>> /\ queryReq[1] = "leaf" /\ queryReq[2] = f /\ queryReq[3] \in ops

\* v op c for integers
NumHolds(op, v, c) ==
    CASE op = "=" -> v = c
      [] op = "<" -> v < c
      [] op = "<=" -> v <= c
      [] op = ">" -> v > c
      [] op = ">=" -> v >= c

\* v op c for strings, bytewise
StrHolds(op, v, c) ==
    CASE op = "<" -> LexLess(v, c)
      [] op = "<=" -> v = c \/ LexLess(v, c)
      [] op = ">" -> LexLess(c, v)
      [] op = ">=" -> v = c \/ LexLess(c, v)
      [] op = "startswith" -> StartsWith(v, c)

\* C12: when every live record holds a non-null, non-negative value in the
\* indexed Long field n, Model.query(n op c) for op among =, <, <=, >, >= and
\* a non-negative literal c returns, without raising and each once, exactly
\* the live records whose n satisfies the comparison numerically.
C12_LongQuery ==
    (/\ IsLeaf("n", {"=", "<", "<=", ">", ">="})
     /\ \A pk \in 1..MaxId :
            Live(db, pk) => Persisted(db, pk, "n") # PyNone /\ Persisted(db, pk, "n")[2] >= 0) =>
        /\ ~raised
        /\ Len(queryOut) = Cardinality(IdsOf(queryOut))
        /\ IdsOf(queryOut) =
              Matches(db, "n", LAMBDA v : NumHolds(queryReq[3], v[2], queryReq[4][2]))

\* C13: when every live record holds a non-empty string in the indexed String
\* field f, Model.query(f < c) returns exactly the live records whose value is
\* bytewise less than c, and Model.query(f <= c) exactly those whose value is
\* less than or equal to c.
C13_StringLess ==
    (/\ IsLeaf("f", {"<", "<="})
     /\ \A pk \in 1..MaxId : Live(db, pk) => Persisted(db, pk, "f")[2] # <<>>) =>
        /\ ~raised
        /\ IdsOf(queryOut) =
              Matches(db, "f", LAMBDA v : StrHolds(queryReq[3], v[2], queryReq[4][2]))

\* C14: Model.query(f > c) returns exactly the live records whose value of the
\* String field f is non-null and bytewise greater than c, Model.query(f >= c)
\* exactly those whose value is non-null and greater than or equal to c; the
\* sentinel of the index is not among the results.
C14_StringGreater ==
    IsLeaf("f", {">", ">="}) =>
        /\ ~raised
        /\ IdsOf(queryOut) =
              Matches(db, "f", LAMBDA v : v # PyNone /\ StrHolds(queryReq[3], v[2], queryReq[4][2]))

\* C15: for a non-empty prefix p, Model.query(f.startswith(p)) returns exactly
\* the live records whose value of the String field f begins with p, and the
\* empty list when there is none.
C15_StartsWith ==
    (IsLeaf("f", {"startswith"}) /\ queryReq[4][2] # <<>>) =>
        /\ ~raised
        /\ IdsOf(queryOut) =
              Matches(db, "f", LAMBDA v : StrHolds("startswith", v[2], queryReq[4][2]))

\* the keys of the entries of the index of f, the sentinel apart
EntryKeys(d, f) ==
    {k \in DOMAIN d : StartsWith(k, IndexName(f) \o <<255>>) /\ k # stop_key(f)}

\* C16: Index.query(v, '!=') returns, without raising, exactly the primary
\* keys of the entries of the index whose key does not begin with
\* '<index name>\xff<encoded v>\xff', and never the sentinel's value.
C16_NotEqual ==
    (queryReq # <<>> /\ queryReq[1] = "index" /\ queryReq[3] = "!=") =>
        LET f == queryReq[2]
            match == IndexName(f) \o <<255>> \o PyText(db_value(FieldType[f], queryReq[4])) \o <<255>>
            others == {k \in EntryKeys(db, f) : ~StartsWith(k, match)}
        IN  /\ ~raised
            /\ Len(queryOut) = Cardinality(others)
            /\ SetOf(queryOut) = {db[k] : k \in others}

-----------------------------------------------------------------------------
(* The round-trip specification: instances of a class with one field of    *)
(* each type are created, changed, saved, loaded and deleted.              *)

RoundClasses == {<<"f", "id">>, <<"n", "id">>, <<"x", "id">>, <<"d", "id">>, <<"t", "id">>}

\* '' and 'a'; 0 and 256; 0.0 and 1.0; 2000-01-02 and 1999-12-31;
\* 2000-01-02 03:04:05.000006 and 1999-12-31 23:59:59.999999
RoundValues ==
    [f |-> {PyStr(<<>>), PyStr(<<97>>)},
     n |-> {PyInt(0), PyInt(256)},
     x |-> {PyFloat(0, 0), PyFloat(1072693248, 0)},
     d |-> {PyDate(2000, 1, 2), PyDate(1999, 12, 31)},
     t |-> {PyDateTime(2000, 1, 2, 3, 4, 5, 6), PyDateTime(1999, 12, 31, 23, 59, 59, 999999)}]

InitRound ==
    /\ db = EmptyDb
    /\ raised = FALSE
    /\ InitSliceVars
    /\ InitTxnVars
    /\ InitHexaVars
    /\ InitCounterVars
    /\ InitCursorVars
    /\ serialize \in BOOLEAN
    /\ declared \in RoundClasses
    /\ inst = EmptyData
    /\ created = <<>>
    /\ queryReq = <<>>
    /\ queryOut = <<>>

NextRound ==
    \/ \E value \in RoundValues[declared[1]] : Create([name \in {declared[1]} |-> value])
    \/ \E pk \in 1..MaxId : ModelLoad(pk)
    \/ \E value \in RoundValues[declared[1]] : SetAttr(declared[1], value)
    \/ Save
    \/ ModelDelete

SpecRound == InitRound /\ [][NextRound]_vars

\* C18: save / load round trip.  After a create or a save that did not
\* raise, of an instance whose field holds a String, Long, Float, Date or
\* DateTime value (0, 0.0 and '' among them), serialized or not, Model.load of
\* the instance's id does not raise and returns the same id and, for every
\* field of the instance that is not null, the same value.
C18_RoundTrip ==
    [][(/\ \/ ModelSave
           \/ \E value \in RoundValues[declared[1]] :
                  ModelCreate([name \in {declared[1]} |-> value])
        /\ ~raised') =>
          LET r == load(db', PyText(inst'["id"]))
          IN  /\ ~r.err
              /\ getattr(r.data, "id") = inst'["id"]
              /\ \A f \in DOMAIN inst' :
                     inst'[f] # PyNone => getattr(r.data, f) = inst'[f]]_vars

\* a record saved with a zero or empty value, or a date, loads with that value
C18_Witness ==
    /\ ~raised
    /\ "id" \in DOMAIN inst /\ declared[1] \in DOMAIN inst
    /\ inst[declared[1]] \in {PyInt(0), PyFloat(0, 0), PyStr(<<>>),
                              PyDateTime(1999, 12, 31, 23, 59, 59, 999999)}
    /\ Live(db, inst["id"][2])
    /\ Persisted(db, inst["id"][2], declared[1]) = inst[declared[1]]
    /\ ~serialize


---------------------------------------------------------------------------
(* The counter specification: incr and decr calls on one key of a kyoto,   *)
(* a KVHelper or a ForestDB store, one call after the other                *)

MaxCalls == 4

\* 'ct'
CounterKey == <<99, 116>>

\* amounts: the default 1, and 2 and 4
CounterAmounts == {1, 2, 4}

CounterBackends == {"kyoto", "helper", "forest"}

InitCounter ==
    /\ db = EmptyDb
    /\ raised = FALSE
    /\ InitSliceVars
    /\ InitTxnVars
    /\ InitModelVars
    /\ InitHexaVars
    /\ InitCursorVars
    /\ ctrBackend \in CounterBackends
    /\ ctrPending = <<>>
    /\ ctrAmounts = <<>>
    /\ ctrRets = <<>>

\* db.incr(key, n)
Incr(n) ==
    /\ Len(ctrRets) < MaxCalls
    /\ LET done(r) == db' = r[1] /\ ctrRets' = Append(ctrRets, r[2])
       IN  done(CASE ctrBackend = "kyoto" -> incr(db, CounterKey, n)
                  [] ctrBackend = "helper" -> KVHelper_incr(db, CounterKey, n)
                  [] ctrBackend = "forest" -> ForestDB_incr(db, CounterKey, n))
    /\ ctrAmounts' = Append(ctrAmounts, n)
    /\ raised' = FALSE
    /\ UNCHANGED <<ctrBackend, ctrPending, sliceVars, txnVars, modelVars, hexaVars, cursorVars>>

\* db.decr(key, n)
Decr(n) ==
    /\ Len(ctrRets) < MaxCalls
    /\ LET done(r) == db' = r[1] /\ ctrRets' = Append(ctrRets, r[2])
       IN  done(CASE ctrBackend = "kyoto" -> decr(db, CounterKey, n)
                  [] ctrBackend = "helper" -> KVHelper_decr(db, CounterKey, n)
                  [] ctrBackend = "forest" -> ForestDB_decr(db, CounterKey, n))
    /\ ctrAmounts' = Append(ctrAmounts, 0 - n)
    /\ raised' = FALSE
    /\ UNCHANGED <<ctrBackend, ctrPending, sliceVars, txnVars, modelVars, hexaVars, cursorVars>>

NextCounter ==
    \/ \E n \in CounterAmounts : Incr(n)
    \/ \E n \in CounterAmounts : Decr(n)

SpecCounter == InitCounter /\ [][NextCounter]_vars

RECURSIVE SumTo(_, _)
SumTo(seq, i) == IF i = 0 THEN 0 ELSE SumTo(seq, i - 1) + seq[i]

\* Database._get_int(key): the counter as a later read gives it
_get_int(d, key) == Unpack(d[key])

\* C22: starting from an absent key, every incr / decr call returns the sum
\* of the signed amounts applied up to and including it, and after each call
\* the counter read from the store is the sum of all of them.
C22_RunningSum ==
    /\ Len(ctrRets) = Len(ctrAmounts)
    /\ \A i \in 1..Len(ctrRets) : ctrRets[i] = SumTo(ctrAmounts, i)
    /\ ctrRets # <<>> =>
          /\ Contains(db, CounterKey)
          /\ _get_int(db, CounterKey) = SumTo(ctrAmounts, Len(ctrAmounts))

\* incr(key), incr(key, 2), decr(key, 4) on a KVHelper store returned 1, 3
\* and -1, and the counter reads -1
C22_Witness ==
    /\ ctrBackend = "helper"
    /\ ctrAmounts = <<1, 2, -4>>
    /\ ctrRets = <<1, 3, -1>>
    /\ _get_int(db, CounterKey) = -1


---------------------------------------------------------------------------
(* The concurrent counter specification: two callers increment one key.    *)
(* kyotocabinet's increment is one step of the store; KVHelper.incr reads  *)
(* the key and writes it back in two steps, between which the other caller  *)
(* can run.                                                                *)

Callers == {1, 2}

RaceAmounts == {1, 2}

RaceBackends == {"kyoto", "helper"}

InitRace ==
    /\ db = EmptyDb
    /\ raised = FALSE
    /\ InitSliceVars
    /\ InitTxnVars
    /\ InitModelVars
    /\ InitHexaVars
    /\ InitCursorVars
    /\ ctrBackend \in RaceBackends
    /\ ctrPending = [p \in Callers |-> <<>>]
    /\ ctrAmounts = <<>>
    /\ ctrRets = <<>>

\* the calls begun: those that returned and those between read and write
Begun == Len(ctrRets) + Cardinality({p \in Callers : ctrPending[p] # <<>>})

\* caller p runs Database.incr(key, n) of the kyoto store
IncrAtomic(p, n) ==
    /\ ctrBackend = "kyoto"
    /\ Begun < MaxCalls
    /\ LET done(r) == db' = r[1] /\ ctrRets' = Append(ctrRets, r[2])
       IN  done(incr(db, CounterKey, n))
    /\ ctrAmounts' = Append(ctrAmounts, n)
    /\ raised' = FALSE
    /\ UNCHANGED <<ctrBackend, ctrPending, sliceVars, txnVars, modelVars, hexaVars, cursorVars>>

\* caller p enters KVHelper.incr(key, n) and reads the key
IncrRead(p, n) ==
    /\ ctrBackend = "helper"
    /\ ctrPending[p] = <<>>
    /\ Begun < MaxCalls
    /\ ctrPending' = [ctrPending EXCEPT ![p] = <<n, KVHelper_incr_read(db, CounterKey, n)>>]
    /\ raised' = FALSE
    /\ UNCHANGED <<db, ctrBackend, ctrAmounts, ctrRets, sliceVars, txnVars, modelVars,
                   hexaVars, cursorVars>>

\* caller p writes the value it computed and returns it
IncrWrite(p) ==
    /\ ctrPending[p] # <<>>
    /\ LET done(r) == db' = r[1] /\ ctrRets' = Append(ctrRets, r[2])
       IN  done(KVHelper_incr_write(db, CounterKey, ctrPending[p][2]))
    /\ ctrAmounts' = Append(ctrAmounts, ctrPending[p][1])
    /\ ctrPending' = [ctrPending EXCEPT ![p] = <<>>]
    /\ raised' = FALSE
    /\ UNCHANGED <<ctrBackend, sliceVars, txnVars, modelVars, hexaVars, cursorVars>>

NextRace ==
    \/ \E p \in Callers, n \in RaceAmounts : IncrAtomic(p, n)
    \/ \E p \in Callers, n \in RaceAmounts : IncrRead(p, n)
    \/ \E p \in Callers : IncrWrite(p)

SpecRace == InitRace /\ [][NextRace]_vars

\* C23: whatever way the increments of two callers interleave, no two calls
\* return the same value, and once every call has returned the counter is
\* its initial value (0: the key was absent) plus the sum of the amounts.
C23_AtomicIncrement ==
    /\ \A i, j \in 1..Len(ctrRets) : i # j => ctrRets[i] # ctrRets[j]
    /\ (ctrRets # <<>> /\ \A p \in Callers : ctrPending[p] = <<>>) =>
          _get_int(db, CounterKey) = SumTo(ctrAmounts, Len(ctrAmounts))


---------------------------------------------------------------------------
(* The cursor specification: a store is filled, a cursor is opened on it,  *)
(* positioned, asked for a bounded fetch and then iterated to its end      *)

InitCursorSpec ==
    /\ db = EmptyDb
    /\ raised = FALSE
    /\ InitSliceVars
    /\ InitTxnVars
    /\ InitModelVars
    /\ InitHexaVars
    /\ InitCounterVars
    /\ InitCursorVars

\* db[k] = v while no cursor is open
CurPut(k, v) == curOps = <<>> /\ Put(k, v)

\* `with db.cursor(reverse) as cursor`: __enter__ goes to the first record,
\* or to the last one for a reverse cursor
Open(reverse) ==
    /\ curOps = <<>>
    /\ cur' = cursor(db, reverse)
    /\ curOps' = <<<<"open", reverse>>>>
    /\ curOuts' = <<>>
    /\ raised' = FALSE
    /\ UNCHANGED <<db, sliceVars, txnVars, modelVars, hexaVars, counterVars>>

\* cursor.seek(k)
Seek(k) ==
    /\ curOps # <<>>
    /\ cur' = seek(db, cur, k)
    /\ curOps' = <<curOps[1], <<"seek", k>>>>
    /\ curOuts' = <<>>
    /\ raised' = FALSE
    /\ UNCHANGED <<db, sliceVars, txnVars, modelVars, hexaVars, counterVars>>

\* list(cursor.fetch_until(end_key))
FetchUntil(end_key) ==
    /\ curOps # <<>> /\ curOuts = <<>>
    /\ LET done(r) == curOuts' = <<r[1]>> /\ cur' = r[2]
       IN  done(fetch_until(db, cur, end_key))
    /\ curOps' = Append(curOps, <<"until", end_key>>)
    /\ raised' = FALSE
    /\ UNCHANGED <<db, sliceVars, txnVars, modelVars, hexaVars, counterVars>>

\* list(cursor.fetch_count(n))
FetchCount(n) ==
    /\ curOps # <<>> /\ curOuts = <<>>
    /\ LET done(r) == curOuts' = <<r[1]>> /\ cur' = r[2]
       IN  done(fetch_count(db, cur, n))
    /\ curOps' = Append(curOps, <<"count", n>>)
    /\ raised' = FALSE
    /\ UNCHANGED <<db, sliceVars, txnVars, modelVars, hexaVars, counterVars>>

\* list(cursor) after a fetch, the cursor not repositioned
Rest ==
    /\ Len(curOuts) = 1
    /\ LET done(r) == curOuts' = Append(curOuts, r[1]) /\ cur' = r[2]
       IN  done(iterate(db, cur))
    /\ curOps' = Append(curOps, <<"rest">>)
    /\ raised' = FALSE
    /\ UNCHANGED <<db, sliceVars, txnVars, modelVars, hexaVars, counterVars>>

\* cursor.close() at the end of the `with` block
Close ==
    /\ curOps # <<>>
    /\ cur' = Cursor(NoneKey, FALSE)
    /\ curOps' = <<>>
    /\ curOuts' = <<>>
    /\ raised' = FALSE
    /\ UNCHANGED <<db, sliceVars, txnVars, modelVars, hexaVars, counterVars>>

NextCursor ==
    \/ \E k \in SliceKeys, v \in SliceValues : CurPut(k, v)
    \/ \E reverse \in BOOLEAN : Open(reverse)
    \/ \E k \in SliceEnds : Seek(k)
    \/ \E end_key \in SliceEnds : FetchUntil(end_key)
    \/ \E n \in 0..MaxStored + 1 : FetchCount(n)
    \/ Rest
    \/ Close

SpecCursor == InitCursorSpec /\ [][NextCursor]_vars

\* the cursor is a reverse one; it was positioned by seek; the key seek was given
IsReverse == curOps[1][2]
Sought == Len(curOps) >= 2 /\ curOps[2][1] = "seek"
SoughtKey == curOps[2][2]

\* the key the cursor stood on when it was positioned (NoneKey: on no record)
StartKey ==
    IF Sought THEN LeastKey(KeysFrom(db, SoughtKey))
    ELSE IF IsReverse THEN GreatestKey(DOMAIN db) ELSE LeastKey(DOMAIN db)

\* the entries an uninterrupted scan from the starting position passes
ScanSet ==
    IF StartKey = NoneKey THEN {}
    ELSE IF IsReverse THEN UpTo(db, StartKey) ELSE From(db, StartKey)

IsScanOf(seq, S) == IF IsReverse THEN IsDescendingOf(seq, S) ELSE IsAscendingOf(seq, S)

\* the fetch asked of the cursor after its positioning
Fetch == curOps[IF Sought THEN 3 ELSE 2]

\* C24: on a forward cursor positioned by seek(k), fetch_until(end) yields
\* exactly the entries with k <= key <= end in ascending order; on a reverse
\* cursor it yields the entries from the cursor's position down to and
\* including end in descending order; fetch_count(n) yields exactly the next
\* min(n, remaining) entries in the cursor's order.
C24_BoundedFetch ==
    (Len(curOuts) >= 1) =>
        IF Fetch[1] = "until"
        THEN IF ~IsReverse
             THEN Sought => IsAscendingOf(curOuts[1], Between(db, SoughtKey, Fetch[2]))
             ELSE IsDescendingOf(curOuts[1],
                      IF StartKey = NoneKey THEN {} ELSE Between(db, Fetch[2], StartKey))
        ELSE /\ Len(curOuts[1]) = (IF Fetch[2] < Cardinality(ScanSet) THEN Fetch[2]
                                   ELSE Cardinality(ScanSet))
             /\ \E S \in SUBSET ScanSet :
                   /\ IsScanOf(curOuts[1], S)
                   /\ \A e \in S : \A o \in ScanSet \ S :
                         IF IsReverse THEN LexLess(o[1], e[1]) ELSE LexLess(e[1], o[1])

\* over the keys a, ab, b: a forward cursor sought to 'a' and fetched until
\* 'aa', a key between a and ab, yielded a alone
C24_Witness ==
    /\ Cardinality(DOMAIN db) = 3
    /\ curOps = <<<<"open", FALSE>>, <<"seek", <<97>>>>, <<"until", <<97, 97>>>>>>
    /\ Len(curOuts) = 1
    /\ Len(curOuts[1]) = 1
    /\ curOuts[1][1][1] = <<97>>

\* C30: after a bounded fetch has finished, iterating the same cursor
\* without repositioning it resumes at the first entry the fetch did not
\* yield: the entries of the fetch followed by those of the iteration are
\* exactly the entries of one uninterrupted scan from the starting position.
C30_FetchLosesNothing ==
    (Len(curOuts) = 2) => IsScanOf(curOuts[1] \o curOuts[2], ScanSet)


---------------------------------------------------------------------------
(* The commit specification: transaction scopes on a store built with or   *)
(* without exceptional=True, whose commit at normal exit can fail          *)

InitCommit ==
    /\ db = EmptyDb
    /\ raised = FALSE
    /\ InitSliceVars
    /\ InitModelVars
    /\ InitHexaVars
    /\ InitCounterVars
    /\ InitCursorVars
    /\ txnActive = FALSE
    /\ txnSaved = EmptyDb
    /\ txnForm = "with"
    /\ txnPre = EmptyDb
    /\ txnLog = EmptyDb
    /\ txnEnd = "none"
    /\ txnCalls = <<>>
    /\ exceptional \in BOOLEAN

\* the scope's body returns and the backend's commit does not succeed; the
\* store is left with the scope's writes or without them
ExitCommitFails(kept) ==
    /\ txnActive
    /\ LET done(r) ==
               /\ db' = r[1]
               /\ txnActive' = r[2]
               /\ txnSaved' = r[3]
               /\ txnCalls' = txnCalls \o r[4]
               /\ raised' = r[5]
       IN  done(transaction_exit_commit_fails(db, txnSaved, exceptional,
                                              IF kept THEN db ELSE txnSaved))
    /\ txnEnd' = "commit failed"
    /\ UNCHANGED <<modelVars, hexaVars, sliceVars, txnForm, txnPre, txnLog, exceptional,
                   counterVars, cursorVars>>

NextCommit ==
    \/ \E form \in TxnForms : Enter(form)
    \/ \E k \in TxnKeys, v \in TxnValues : Write(k, v)
    \/ \E k \in TxnKeys : Delete(k)
    \/ \E exc \in BOOLEAN : Exit(exc)
    \/ \E kept \in BOOLEAN : ExitCommitFails(kept)

SpecCommit == InitCommit /\ [][NextCommit]_vars

\* C25: when the commit at normal exit of a transaction scope fails, the
\* wrapper has attempted a rollback after it and the failure has reached the
\* caller of the scope.
C25_CommitFailurePropagates ==
    txnEnd = "commit failed" =>
        /\ txnCalls = <<"begin", "commit", "rollback">>
        /\ raised

=============================================================================
